---- MODULE Spec2Model ----
(***************************************************************************)
(* Secondary-index machinery of leveldbplus: the write buffer's inverted   *)
(* list (db/memtable.cc) and the 2-D interval tree with top-K              *)
(* (util/interval_tree.cc).                                                *)
(*                                                                         *)
(* Strings are sequences of byte values; every comparison of strings is    *)
(* the bytewise lexicographic comparison of std::string / Slice.           *)
(***************************************************************************)
EXTENDS Integers, Sequences, FiniteSets, TLC

\* ------------------------------------------------------------------ bounds
MaxSeq == 3          \* number of records written to the store
MaxTopK == 2         \* largest top_k_output a query asks for
MaxTables == 1       \* number of SSTables a run writes
MaxSyncCounter == 2  \* mutations of the tree counted without a checkpoint
MaxNodes == 4        \* nodes allocated, the sentinel included, at an insert

\* ------------------------------------------------------------- strings
\* std::string::compare / operator< : bytewise, a proper prefix is smaller
RECURSIVE StrLess(_, _)
StrLess(a, b) ==
  IF b = <<>> THEN FALSE
  ELSE IF a = <<>> THEN TRUE
  ELSE IF Head(a) < Head(b) THEN TRUE
  ELSE IF Head(a) > Head(b) THEN FALSE
  ELSE StrLess(Tail(a), Tail(b))

StrLeq(a, b) == a = b \/ StrLess(a, b)

\* operator<< of an unsigned integer: base 10, no leading zeros
RECURSIVE DecimalString(_)
DecimalString(n) ==
  IF n < 10 THEN << 48 + n >>
  ELSE DecimalString(n \div 10) \o << 48 + (n % 10) >>

\* -------------------------------------------------- json_utils.h:27-67
\* A JSON document is [isObject, members]; members maps attribute names to
\* values [t, v] with t one of "string", "uint", "int", "bool", "null",
\* "array", "object".
JsonString(s) == [t |-> "string", v |-> s]
JsonUint(n) == [t |-> "uint", v |-> n]
JsonNull == [t |-> "null", v |-> 0]
JsonInt(n) == [t |-> "int", v |-> n]
JsonBool(b) == [t |-> "bool", v |-> b]
JsonArray == [t |-> "array", v |-> 0]
JsonObject == [t |-> "object", v |-> 0]

Status_OK == "OK"
Status_InvalidArgument == "InvalidArgument"

ExtractKeyFromJSON(json_data, key) ==
  IF key = ""
    THEN [st |-> Status_InvalidArgument, key_attr |-> <<>>]
  ELSE IF \/ ~json_data.isObject
          \/ key \notin DOMAIN json_data.members
          \/ json_data.members[key].t = "null"
    THEN [st |-> Status_InvalidArgument, key_attr |-> <<>>]
  ELSE LET key_value == json_data.members[key] IN
    CASE key_value.t = "uint" ->
           [st |-> Status_OK, key_attr |-> DecimalString(key_value.v)]
      [] key_value.t = "int" ->
           [st |-> Status_OK,
            key_attr |-> IF key_value.v < 0
                           THEN <<45>> \o DecimalString(0 - key_value.v)
                           ELSE DecimalString(key_value.v)]
      [] key_value.t = "string" ->
           [st |-> Status_OK, key_attr |-> key_value.v]
      [] key_value.t = "bool" ->
           \* key_stream << GetBool() without boolalpha prints 1 or 0
           [st |-> Status_OK,
            key_attr |-> IF key_value.v THEN <<49>> ELSE <<48>>]
      [] OTHER ->
           [st |-> Status_InvalidArgument, key_attr |-> <<>>]

\* ------------------------------------------------------------ the inputs
kTypeDeletion == 0
kTypeValue == 1

\* options.secondary_key, handed to the MemTable constructor
secondary_attribute_ == "age"

\* user keys "1" and "2"
UserKeys == { <<49>>, <<50>> }

\* payloads: {"age":"3"}, {"age":5}, {"name":"x"}; a Deletion carries ""
DocAge3 == [isObject |-> TRUE, members |-> [age |-> JsonString(<<51>>)]]
DocAge5 == [isObject |-> TRUE, members |-> [age |-> JsonUint(5)]]
DocNoAge == [isObject |-> TRUE, members |-> [name |-> JsonString(<<120>>)]]
EmptyValue == [isObject |-> FALSE, members |-> <<>>]
Payloads == { DocAge3, DocAge5, DocNoAge }

\* secondary values a query asks for: "3" and "5"
QueryKeys == { <<51>>, <<53>> }

\* ---------------------------------------------------------------- state
VARIABLES
  table_,            \* MemTable::table_ : the entries of the skiplist
  secondary_table_,  \* MemTable::secondary_table_ : value -> list of keys
  last_sequence,     \* sequence number of the newest record
  tables,            \* the SSTables written by flushes, newest first
  query,             \* the secondary query being answered, or NoQuery
  acc,               \* the heap of SecondaryKeyReturnVal after the write
                     \* buffer's lookup
  result_set,        \* the primary keys admitted by the write buffer's lookup
  out,               \* the list the query returns
  tree,              \* Interval2DTreeWithTopK: root and the nodes (with nil)
  storage,           \* Interval2DTreeWithTopK::storage : id -> node
  ids,               \* Interval2DTreeWithTopK::ids : prefix -> suffixes
  sync_threshold,    \* Interval2DTreeWithTopK::sync_threshold
  sync_counter,      \* Interval2DTreeWithTopK::sync_counter
  sync_file_data,    \* the intervals of the list sync() wrote last
  iterator_in_use,   \* Interval2DTreeWithTopK::iterator_in_use
  iterator,          \* Interval2DTreeWithTopK::iterator
  its,               \* the TopKIterator objects of the callers
  topk_call,         \* the topK call being answered, or NoCall
  topk_out,          \* the vector topK filled
  ub,                \* a freed object was dereferenced
  mutex_,            \* the holder of the write mutex of the engine, or Nobody
  adding,            \* the MemTable::Add that has inserted into table_ only
  linking,           \* the insertInterval that has not yet linked its node
  rep_,              \* TableBuilder::rep_
  sstable            \* the Table that Table::Open gave, and its status

memVars == << table_, secondary_table_, last_sequence, tables >>
queryVars == << query, acc, result_set, out >>
treeVars == << tree, storage, ids, sync_threshold, sync_counter,
               sync_file_data, iterator_in_use, iterator, its,
               topk_call, topk_out, ub >>
lockVars == << mutex_, adding >>
fileVars == << rep_, sstable >>
storeVars == << mutex_, adding, linking, rep_, sstable,
                table_, secondary_table_, last_sequence, tables,
                query, acc, result_set, out >>
vars == << table_, secondary_table_, last_sequence, tables,
           query, acc, result_set, out,
           tree, storage, ids, sync_threshold, sync_counter,
           sync_file_data, iterator_in_use, iterator, its,
           topk_call, topk_out, ub, mutex_, adding, linking, rep_,
           sstable >>

NoQuery == [op |-> "none"]

\* no call is in progress
NoCall == [op |-> "none"]

\* no thread holds the mutex
Nobody == "nobody"

\* no TableBuilder is constructed
NoBuilder == [closed |-> TRUE]

\* Table::Open was not called
NoTable == [status |-> "none"]

\* ------------------------------------------- SecondaryKeyReturnVal heap
\* acc is kept as a min-heap on sequence_number: front() is the entry with
\* the smallest sequence_number, Pop removes it, Push adds one entry.
Front(heap) ==
  CHOOSE e \in { heap[i] : i \in 1..Len(heap) } :
    \A j \in 1..Len(heap) : e.sequence_number <= heap[j].sequence_number

Push(heap, newVal) == Append(heap, newVal)

Pop(heap) ==
  LET i == CHOOSE k \in 1..Len(heap) : heap[k] = Front(heap)
  IN  SubSeq(heap, 1, i - 1) \o SubSeq(heap, i + 1, Len(heap))

\* --------------------------------------------------- memtable.cc:95-149
\* lines 95-118: the entry is encoded and inserted into the skiplist
AddPrimary(tbl, s, type, key, value) ==
  tbl \cup { [key |-> key, seq |-> s, type |-> type, value |-> value] }

\* the append of lines 128-148 with the test of the type left out and the
\* key put at the front of its list
AddSecondaryAtFront(smt, extracted, sk, type, key) ==
  IF extracted.st # Status_OK THEN smt
  ELSE IF sk \notin DOMAIN smt
    THEN [k \in DOMAIN smt \cup {sk} |->
            IF k = sk THEN << key >> ELSE smt[k]]
  ELSE [smt EXCEPT ![sk] = << key >> \o @]

\* lines 128-148: the key is appended to the inverted list of its
\* secondary value; a Deletion and a payload without the attribute add
\* nothing
AddSecondaryAt(smt, extracted, sk, type, key) ==
  IF type = kTypeDeletion THEN smt
  ELSE IF extracted.st # Status_OK THEN smt
  ELSE IF sk \notin DOMAIN smt
    THEN [k \in DOMAIN smt \cup {sk} |->
            IF k = sk THEN << key >> ELSE smt[k]]
  ELSE [smt EXCEPT ![sk] = Append(@, key)]

\* the inverted list left as it was
AddSecondarySkipped(smt, type, key, value) == smt

AddSecondary(smt, type, key, value) ==
  AddSecondaryAt(smt, ExtractKeyFromJSON(value, secondary_attribute_),
                 ExtractKeyFromJSON(value, secondary_attribute_).key_attr,
                 type, key)

\* MemTable::Add: the skiplist insert, then the inverted-list append
MemTableAdd(s, type, key, value) ==
  /\ table_' = AddPrimary(table_, s, type, key, value)
  /\ secondary_table_' = AddSecondary(secondary_table_, type, key, value)

\* -------------------------------------------------- memtable.cc:187-222
\* MemTable::Get(LookupKey, value, s, tag): Seek lands on the newest entry
\* of user_key whose sequence is <= the snapshot of the lookup key
MemTableGet(user_key, snapshot) ==
  LET visible == { e \in table_ : e.key = user_key /\ e.seq <= snapshot }
  IN
  IF visible = {}
    THEN [ret |-> FALSE, notFound |-> FALSE, value |-> EmptyValue, tag |-> 0]
  ELSE LET e == CHOOSE x \in visible : \A y \in visible : y.seq <= x.seq
           tag == e.seq * 256 + e.type
       IN IF e.type = kTypeValue
            THEN [ret |-> TRUE, notFound |-> FALSE,
                  value |-> e.value, tag |-> tag]
            ELSE [ret |-> TRUE, notFound |-> TRUE,
                  value |-> EmptyValue, tag |-> tag]

\* -------------------------------------------------- memtable.cc:249-267
\* the admission without the look into result_set
AdmitNoDedup(st, pkey, svalue, tag, top_k_output) ==
  LET newVal == [key |-> pkey, value |-> svalue, sequence_number |-> tag]
  IN
  IF Len(st.acc) < top_k_output
    THEN [acc |-> Push(st.acc, newVal),
          result_set |-> st.result_set \cup {pkey}]
  ELSE IF newVal.sequence_number > Front(st.acc).sequence_number
    THEN LET acc2 == Push(Pop(st.acc), newVal)
         IN [acc |-> acc2,
             result_set |-> (st.result_set \cup {pkey}) \ {Front(acc2).key}]
  ELSE st

\* the admission of one matching entry into the heap
Admit(st, pkey, svalue, tag, top_k_output) ==
  LET newVal == [key |-> pkey, value |-> svalue, sequence_number |-> tag]
  IN
  IF pkey \in st.result_set THEN st
  ELSE IF Len(st.acc) < top_k_output
    THEN [acc |-> Push(st.acc, newVal),
          result_set |-> st.result_set \cup {pkey}]
  ELSE IF newVal.sequence_number > Front(st.acc).sequence_number
    THEN LET acc2 == Push(Pop(st.acc), newVal)
         IN [acc |-> acc2,
             result_set |-> (st.result_set \cup {pkey}) \ {Front(acc2).key}]
  ELSE st

\* -------------------------------------------------- memtable.cc:224-270
\* MemTable::Get(skey, snapshot, acc, s, result_set, top_k_output):
\* the loop over the inverted list, newest entry first
RECURSIVE GetLoop(_, _, _, _, _, _)
GetLoop(list, i, st, skey, snapshot, top_k_output) ==
  IF i < 1 THEN st
  ELSE IF Len(st.acc) >= top_k_output THEN st
  ELSE LET pkey == list[i]
           r == MemTableGet(pkey, snapshot)
           ex == ExtractKeyFromJSON(r.value, secondary_attribute_)
       IN
       IF ~r.ret THEN st
       ELSE IF r.notFound THEN st
       ELSE IF ex.st # Status_OK THEN st
       ELSE IF ex.key_attr = skey
         THEN GetLoop(list, i - 1,
                      Admit(st, pkey, r.value, r.tag, top_k_output),
                      skey, snapshot, top_k_output)
       ELSE GetLoop(list, i - 1, st, skey, snapshot, top_k_output)

MemTableSecGet(skey, snapshot, st, top_k_output) ==
  IF skey \notin DOMAIN secondary_table_ THEN st
  ELSE GetLoop(secondary_table_[skey], Len(secondary_table_[skey]),
               st, skey, snapshot, top_k_output)

\* -------------------------------------------------- memtable.cc:282-319
\* the inner loop of RangeGet over one bucket pr = (first, second); done is
\* set when the function returns from inside the loop
RECURSIVE RangeBucketLoop(_, _, _, _, _, _)
RangeBucketLoop(first, list, i, st, snapshot, top_k_output) ==
  IF i < 1 THEN [st |-> st, done |-> FALSE]
  ELSE IF Len(st.acc) >= top_k_output
    THEN RangeBucketLoop(first, list, i - 1, st, snapshot, top_k_output)
  ELSE LET pkey == list[i]
           r == MemTableGet(pkey, snapshot)
           ex == ExtractKeyFromJSON(r.value, secondary_attribute_)
       IN
       IF ~r.ret THEN [st |-> st, done |-> TRUE]
       ELSE IF r.notFound THEN [st |-> st, done |-> TRUE]
       ELSE IF ex.st # Status_OK THEN [st |-> st, done |-> TRUE]
       ELSE IF ex.key_attr = first
         THEN RangeBucketLoop(first, list, i - 1,
                              Admit(st, pkey, r.value, r.tag, top_k_output),
                              snapshot, top_k_output)
       ELSE RangeBucketLoop(first, list, i - 1, st, snapshot, top_k_output)

\* the keys of a set of strings in ascending order (the order of the map)
RECURSIVE SortedStrings(_)
SortedStrings(S) ==
  IF S = {} THEN <<>>
  ELSE LET m == CHOOSE x \in S : \A y \in S : StrLeq(x, y)
       IN << m >> \o SortedStrings(S \ {m})

\* -------------------------------------------------- memtable.cc:272-321
\* MemTable::RangeGet: the buckets from lower_bound(start_skey) up to
\* upper_bound(end_skey), for start_skey <= end_skey
RECURSIVE RangeLoop(_, _, _, _, _)
RangeLoop(buckets, b, st, snapshot, top_k_output) ==
  IF b > Len(buckets) THEN st
  ELSE LET r == RangeBucketLoop(buckets[b], secondary_table_[buckets[b]],
                                Len(secondary_table_[buckets[b]]),
                                st, snapshot, top_k_output)
       IN IF r.done THEN r.st
          ELSE RangeLoop(buckets, b + 1, r.st, snapshot, top_k_output)

MemTableRangeGet(start_skey, end_skey, snapshot, st, top_k_output) ==
  LET buckets == SortedStrings({ k \in DOMAIN secondary_table_ :
                                   StrLeq(start_skey, k) /\ StrLeq(k, end_skey) })
  IN RangeLoop(buckets, 1, st, snapshot, top_k_output)

\* std::map::lower_bound and upper_bound as positions in the ascending
\* sequence of the keys of the map; Len(keys) + 1 is end()
LowerBound(keys, k) ==
  Cardinality({ i \in 1..Len(keys) : StrLess(keys[i], k) }) + 1

UpperBound(keys, k) ==
  Cardinality({ i \in 1..Len(keys) : StrLeq(keys[i], k) }) + 1

\* the loop for (; lookuplb != lookupub; lookuplb++) of RangeGet from the
\* iterator at position b: visited is the sequence of the buckets entered,
\* overrun is set when the iterator is dereferenced at end()
RECURSIVE RangeWalk(_, _, _, _, _, _, _)
RangeWalk(keys, b, lookupub, st, visited, snapshot, top_k_output) ==
  IF b = lookupub THEN [st |-> st, visited |-> visited, overrun |-> FALSE]
  ELSE IF b > Len(keys)
    THEN [st |-> st, visited |-> visited, overrun |-> TRUE]
  ELSE LET r == RangeBucketLoop(keys[b], secondary_table_[keys[b]],
                                Len(secondary_table_[keys[b]]),
                                st, snapshot, top_k_output)
       IN IF r.done
            THEN [st |-> r.st, visited |-> Append(visited, keys[b]),
                  overrun |-> FALSE]
            ELSE RangeWalk(keys, b + 1, lookupub, r.st,
                           Append(visited, keys[b]), snapshot, top_k_output)

\* MemTable::RangeGet for any pair of bounds. The dereference and the
\* increment of end() are undefined: the process dies there, or (wraps)
\* the iterator goes on from begin() and meets lookupub
RangeGetWalk(start_skey, end_skey, snapshot, st, top_k_output, wraps) ==
  LET keys == SortedStrings(DOMAIN secondary_table_)
      lookupub == UpperBound(keys, end_skey)
      w == RangeWalk(keys, LowerBound(keys, start_skey), lookupub,
                     st, <<>>, snapshot, top_k_output)
  IN IF w.overrun /\ wraps
       THEN [RangeWalk(keys, 1, lookupub, w.st, w.visited,
                       snapshot, top_k_output) EXCEPT !.overrun = TRUE]
       ELSE w

\* ------------------------------------------------ the engine's flush

\* internal key order: user key ascending, then sequence descending
InternalLess(a, b) ==
  \/ StrLess(a.key, b.key)
  \/ a.key = b.key /\ a.seq > b.seq

RECURSIVE SortedEntries(_)
SortedEntries(S) ==
  IF S = {} THEN <<>>
  ELSE LET m == CHOOSE x \in S : \A y \in S \ {x} : InternalLess(x, y)
       IN << m >> \o SortedEntries(S \ {m})

\* the write buffer becomes an SSTable; its inverted list dies with it
FlushMemTable ==
  /\ query = NoQuery
  /\ table_ # {}
  /\ Len(tables) < MaxTables
  /\ tables' = << SortedEntries(table_) >> \o tables
  /\ table_' = {}
  /\ secondary_table_' = <<>>
  /\ UNCHANGED << lockVars, linking, fileVars, last_sequence, queryVars, treeVars >>

\* ------------------------------------------- the evaluator over SSTables
Matches(q, sec) == StrLeq(q.low, sec) /\ StrLeq(sec, q.high)

\* the saver callback applied to one entry of a data block
SecSaver(st, e, q) ==
  LET ex == ExtractKeyFromJSON(e.value, secondary_attribute_)
      newVal == [key |-> e.key, value |-> e.value,
                 sequence_number |-> e.seq * 256 + e.type]
  IN
  IF e.seq > q.snapshot THEN st
  ELSE IF e.type = kTypeDeletion
    THEN [st EXCEPT !.result_set = @ \cup {e.key}]
  ELSE IF ex.st # Status_OK THEN st
  ELSE IF ~Matches(q, ex.key_attr) THEN st
  ELSE IF e.key \in st.result_set THEN st
  ELSE IF Len(st.acc) < q.k
    THEN [acc |-> Push(st.acc, newVal),
          result_set |-> st.result_set \cup {e.key}]
  ELSE IF newVal.sequence_number > Front(st.acc).sequence_number
    THEN [acc |-> Push(Pop(st.acc), newVal),
          result_set |-> (st.result_set \ {Front(st.acc).key}) \cup {e.key}]
  ELSE st

RECURSIVE ScanEntries(_, _, _, _)
ScanEntries(entries, i, st, q) ==
  IF i > Len(entries) THEN st
  ELSE ScanEntries(entries, i + 1, SecSaver(st, entries[i], q), q)

RECURSIVE ScanTables(_, _, _)
ScanTables(t, st, q) ==
  IF t > Len(tables) THEN st
  ELSE ScanTables(t + 1, ScanEntries(tables[t], 1, st, q), q)

\* the returned list: the heap's entries, highest sequence_number first
RECURSIVE SortNewestFirst(_)
SortNewestFirst(heap) ==
  IF heap = <<>> THEN <<>>
  ELSE SortNewestFirst(Pop(heap)) \o << Front(heap) >>

\* ------------------------------------------------------------- actions
EmptyHeap == [acc |-> <<>>, result_set |-> {}]

\* a write of the engine: the next sequence number, then MemTable::Add
Put(key, value) ==
  /\ query = NoQuery
  /\ last_sequence < MaxSeq
  /\ last_sequence' = last_sequence + 1
  /\ MemTableAdd(last_sequence + 1, kTypeValue, key, value)
  /\ UNCHANGED << lockVars, linking, fileVars, tables, queryVars, treeVars >>

Delete(key) ==
  /\ query = NoQuery
  /\ last_sequence < MaxSeq
  /\ last_sequence' = last_sequence + 1
  /\ MemTableAdd(last_sequence + 1, kTypeDeletion, key, EmptyValue)
  /\ UNCHANGED << lockVars, linking, fileVars, tables, queryVars, treeVars >>

\* sget: the write buffer's lookup with fresh acc and result_set, then the
\* SSTables, then the sort of the heap
SGet(skey, snapshot, top_k_output) ==
  LET q == [op |-> "get", low |-> skey, high |-> skey,
            snapshot |-> snapshot, k |-> top_k_output]
      r == MemTableSecGet(skey, snapshot, EmptyHeap, top_k_output)
  IN
  /\ query = NoQuery
  /\ query' = q
  /\ acc' = r.acc
  /\ result_set' = r.result_set
  /\ out' = SortNewestFirst(ScanTables(1, r, q).acc)
  /\ UNCHANGED << lockVars, linking, fileVars, memVars, treeVars >>

\* srange: the same with the write buffer's range lookup
SRangeGet(low, high, snapshot, top_k_output) ==
  LET q == [op |-> "range", low |-> low, high |-> high,
            snapshot |-> snapshot, k |-> top_k_output]
      r == MemTableRangeGet(low, high, snapshot, EmptyHeap, top_k_output)
  IN
  /\ query = NoQuery
  /\ query' = q
  /\ acc' = r.acc
  /\ result_set' = r.result_set
  /\ out' = SortNewestFirst(ScanTables(1, r, q).acc)
  /\ UNCHANGED << lockVars, linking, fileVars, memVars, treeVars >>

\* a call of MemTable::RangeGet with fresh acc and result_set: query is
\* the call with the buckets its loop entered
RangeGet(start_skey, end_skey, snapshot, top_k_output, wraps) ==
  LET r == RangeGetWalk(start_skey, end_skey, snapshot, EmptyHeap,
                        top_k_output, wraps)
  IN
  /\ query = NoQuery
  /\ ~ub
  /\ query' = [op |-> "RangeGet", low |-> start_skey, high |-> end_skey,
               snapshot |-> snapshot, k |-> top_k_output,
               visited |-> r.visited]
  /\ acc' = r.st.acc
  /\ result_set' = r.st.result_set
  /\ out' = <<>>
  /\ ub' = r.overrun
  /\ UNCHANGED << lockVars, linking, fileVars, memVars, tree, storage, ids,
                  sync_threshold, sync_counter, sync_file_data,
                  iterator_in_use, iterator, its, topk_call, topk_out >>

\* a caller extracts an attribute of a document: query is the call, out
\* is the status and the string ExtractKeyFromJSON gave
ExtractKey(json_data, key) ==
  /\ query = NoQuery
  /\ query' = [op |-> "extract", json_data |-> json_data, key |-> key]
  /\ out' = ExtractKeyFromJSON(json_data, key)
  /\ UNCHANGED << lockVars, linking, fileVars, memVars, acc, result_set,
                  treeVars >>

\* the caller takes the list; the next call starts afresh
Return ==
  /\ query # NoQuery
  /\ query' = NoQuery
  /\ acc' = <<>>
  /\ result_set' = {}
  /\ out' = <<>>
  /\ UNCHANGED << lockVars, linking, fileVars, memVars, treeVars >>

\* ------------------------------------ a writer and a reader, two threads
\* The write mutex of the engine: a thread takes it when nobody holds it.
Lock(thread) ==
  /\ mutex_ = Nobody
  /\ mutex_' = thread

Unlock(thread) ==
  /\ mutex_ = thread
  /\ mutex_' = Nobody

\* the writer takes the mutex and the next sequence number, and
\* MemTable::Add runs up to the skiplist insert (memtable.cc:95-118)
WriteBegin(type, key, value) ==
  /\ adding = NoCall
  /\ last_sequence < MaxSeq
  /\ Lock("writer")
  /\ last_sequence' = last_sequence + 1
  /\ table_' = AddPrimary(table_, last_sequence + 1, type, key, value)
  /\ adding' = [op |-> "add", type |-> type, key |-> key, value |-> value]
  /\ UNCHANGED << linking, fileVars, secondary_table_, tables, queryVars,
                  treeVars >>

\* MemTable::Add runs to its end (memtable.cc:128-149) and the writer
\* gives the mutex back
WriteEnd ==
  /\ adding # NoCall
  /\ secondary_table_' = AddSecondary(secondary_table_, adding.type,
                                      adding.key, adding.value)
  /\ adding' = NoCall
  /\ Unlock("writer")
  /\ UNCHANGED << linking, fileVars, table_, last_sequence, tables, queryVars,
                  treeVars >>

\* the reader takes the mutex for its lookup
ReadBegin ==
  /\ query = NoQuery
  /\ Lock("reader")
  /\ UNCHANGED << adding, linking, fileVars, memVars, queryVars, treeVars >>

\* the lookup is done and the reader gives the mutex back
ReadEnd ==
  /\ query # NoQuery
  /\ Unlock("reader")
  /\ UNCHANGED << adding, linking, fileVars, memVars, queryVars, treeVars >>

\* ============================================ util/interval_tree.{h,cc}
\* A tree value is [root, n]: n maps the address of every allocated node,
\* and of the nil sentinel, to the node's fields.  A node is addressed by
\* the id of its interval; NIL is the address of the sentinel.
NIL == <<>>

\* operator* with > where the source has >=
OverlapsStrict(a, b) ==
  IF StrLess(a.low, b.low) THEN StrLess(b.low, a.high)
  ELSE StrLess(a.low, b.high)

\* interval_tree.h:36-40  Interval2DTree::operator*
Overlaps(a, b) ==
  IF StrLess(a.low, b.low) THEN ~StrLess(a.high, b.low)
  ELSE ~StrLess(b.high, a.low)

\* interval_tree.cc:31-38  max2 on strings and on timestamps
max2Str(a, b) == IF StrLess(b, a) THEN a ELSE b
max2Int(a, b) == IF a > b THEN a ELSE b

\* interval_tree.cc:41-54  max3
max3Str(a, b, c) ==
  IF StrLess(b, a)
    THEN (IF StrLess(c, a) THEN a ELSE c)
    ELSE (IF StrLess(c, b) THEN b ELSE c)

max3Int(a, b, c) ==
  IF a > b
    THEN (IF a > c THEN a ELSE c)
    ELSE (IF b > c THEN b ELSE c)

\* interval_tree.cc:715-738
treeSetMaxFields(T, x) ==
  LET n == T.n
      l == n[x].left
      r == n[x].right
      hi == n[x].interval.high
      ts == n[x].interval.timestamp
  IN
  IF l # NIL
    THEN IF r # NIL
      THEN [T EXCEPT
              !.n[x].max_high = max3Str(hi, n[l].max_high, n[r].max_high),
              !.n[x].max_timestamp =
                 max3Int(ts, n[l].max_timestamp, n[r].max_timestamp)]
      ELSE [T EXCEPT
              !.n[x].max_high = max2Str(hi, n[l].max_high),
              !.n[x].max_timestamp = max2Int(ts, n[l].max_timestamp)]
  ELSE IF r # NIL
    THEN [T EXCEPT
            !.n[x].max_high = max2Str(hi, n[r].max_high),
            !.n[x].max_timestamp = max2Int(ts, n[r].max_timestamp)]
  ELSE [T EXCEPT !.n[x].max_high = hi, !.n[x].max_timestamp = ts]

\* interval_tree.cc:641-660
treeLeftRotate(T, x) ==
  LET y == T.n[x].right
      yl == T.n[y].left
      xp == T.n[x].parent
      T1 == [T EXCEPT !.n[x].right = yl]
      T2 == IF yl # NIL THEN [T1 EXCEPT !.n[yl].parent = x] ELSE T1
      T3 == [T2 EXCEPT !.n[y].parent = xp]
      T4 == IF xp = NIL THEN [T3 EXCEPT !.root = y]
            ELSE IF x = T3.n[xp].left THEN [T3 EXCEPT !.n[xp].left = y]
            ELSE [T3 EXCEPT !.n[xp].right = y]
      T5 == [T4 EXCEPT !.n[y].left = x, !.n[x].parent = y]
      T6 == [T5 EXCEPT !.n[y].max_high = T5.n[x].max_high,
                       !.n[y].max_timestamp = T5.n[x].max_timestamp]
  IN treeSetMaxFields(T6, x)

\* interval_tree.cc:663-682
treeRightRotate(T, x) ==
  LET y == T.n[x].left
      yr == T.n[y].right
      xp == T.n[x].parent
      T1 == [T EXCEPT !.n[x].left = yr]
      T2 == IF yr # NIL THEN [T1 EXCEPT !.n[yr].parent = x] ELSE T1
      T3 == [T2 EXCEPT !.n[y].parent = xp]
      T4 == IF xp = NIL THEN [T3 EXCEPT !.root = y]
            ELSE IF x = T3.n[xp].right THEN [T3 EXCEPT !.n[xp].right = y]
            ELSE [T3 EXCEPT !.n[xp].left = y]
      T5 == [T4 EXCEPT !.n[y].right = x, !.n[x].parent = y]
      T6 == [T5 EXCEPT !.n[y].max_high = T5.n[x].max_high,
                       !.n[y].max_timestamp = T5.n[x].max_timestamp]
  IN treeSetMaxFields(T6, x)

\* the fixup without its last assignment
treeRootKept(T) == T

\* interval_tree.cc:520, 614  x->is_red = false with x the root
treeSetRootBlack(T) == [T EXCEPT !.n[T.root].is_red = FALSE]

\* interval_tree.cc:481-521
RECURSIVE treeInsertFixup(_, _)
treeInsertFixup(T, z) ==
  LET n == T.n
      p == n[z].parent
      g == n[p].parent
  IN
  IF ~n[p].is_red THEN treeSetRootBlack(T)
  ELSE IF p = n[g].left
    THEN LET y == n[g].right IN
      IF n[y].is_red
        THEN treeInsertFixup([T EXCEPT !.n[p].is_red = FALSE,
                                       !.n[y].is_red = FALSE,
                                       !.n[g].is_red = TRUE], g)
        ELSE LET z1 == IF z = n[p].right THEN p ELSE z
                 T1 == IF z = n[p].right THEN treeLeftRotate(T, p) ELSE T
                 p1 == T1.n[z1].parent
                 g1 == T1.n[p1].parent
                 T2 == [T1 EXCEPT !.n[p1].is_red = FALSE,
                                  !.n[g1].is_red = TRUE]
             IN treeInsertFixup(treeRightRotate(T2, g1), z1)
    ELSE LET y == n[g].left IN
      IF n[y].is_red
        THEN treeInsertFixup([T EXCEPT !.n[p].is_red = FALSE,
                                       !.n[y].is_red = FALSE,
                                       !.n[g].is_red = TRUE], g)
        ELSE LET z1 == IF z = n[p].left THEN p ELSE z
                 T1 == IF z = n[p].left THEN treeRightRotate(T, p) ELSE T
                 p1 == T1.n[z1].parent
                 g1 == T1.n[p1].parent
                 T2 == [T1 EXCEPT !.n[p1].is_red = FALSE,
                                  !.n[g1].is_red = TRUE]
             IN treeInsertFixup(treeLeftRotate(T2, g1), z1)

\* interval_tree.cc:452-463  the descent of treeInsert: returns the tree
\* with the max fields of the path raised, and the parent y found for z
RECURSIVE treeInsertDescend(_, _, _, _)
treeInsertDescend(T, x, y, iv) ==
  IF x = NIL THEN [T |-> T, y |-> y]
  ELSE LET T1 == IF StrLess(T.n[x].max_high, iv.high)
                   THEN [T EXCEPT !.n[x].max_high = iv.high] ELSE T
           T2 == IF T1.n[x].max_timestamp < iv.timestamp
                   THEN [T1 EXCEPT !.n[x].max_timestamp = iv.timestamp]
                   ELSE T1
       IN IF StrLess(iv.low, T2.n[x].interval.low)
            THEN treeInsertDescend(T2, T2.n[x].left, x, iv)
            ELSE treeInsertDescend(T2, T2.n[x].right, x, iv)

\* interval_tree.cc:446-478  z is a freshly allocated node holding iv
treeInsert(T, z, iv) ==
  LET d == treeInsertDescend(T, T.root, NIL, iv)
      y == d.y
      zn == [interval |-> iv, is_red |-> TRUE,
             max_high |-> iv.high, max_timestamp |-> iv.timestamp,
             left |-> NIL, right |-> NIL, parent |-> y]
      n1 == [k \in DOMAIN d.T.n \cup {z} |->
               IF k = z THEN zn ELSE d.T.n[k]]
      T1 == [root |-> d.T.root, n |-> n1]
      T2 == IF y = NIL THEN [T1 EXCEPT !.root = z]
            ELSE IF StrLess(iv.low, T1.n[y].interval.low)
              THEN [T1 EXCEPT !.n[y].left = z]
            ELSE [T1 EXCEPT !.n[y].right = z]
  IN treeInsertFixup(T2, z)

\* interval_tree.cc:685-695  v may be the sentinel: its parent is written
treeTransplant(T, u, v) ==
  LET up == T.n[u].parent
      T1 == IF up = NIL THEN [T EXCEPT !.root = v]
            ELSE IF u = T.n[up].left THEN [T EXCEPT !.n[up].left = v]
            ELSE [T EXCEPT !.n[up].right = v]
  IN [T1 EXCEPT !.n[v].parent = up]

\* interval_tree.cc:618-623
RECURSIVE treeMinimum(_, _)
treeMinimum(T, x) ==
  IF T.n[x].left # NIL THEN treeMinimum(T, T.n[x].left) ELSE x

\* interval_tree.cc:702-710  one turn of the loop: T1 is T with the max
\* fields of x recomputed
treeMaxFieldsFixupStep(T, T1, x) ==
  IF /\ T1.n[x].max_high = T.n[x].max_high
     /\ T1.n[x].max_timestamp = T.n[x].max_timestamp
    THEN [done |-> TRUE, T |-> T1, x |-> x]
    ELSE [done |-> FALSE, T |-> T1, x |-> T1.n[x].parent]

\* interval_tree.cc:698-712
RECURSIVE treeMaxFieldsFixup(_, _)
treeMaxFieldsFixup(T, x) ==
  IF x = NIL THEN T
  ELSE LET s == treeMaxFieldsFixupStep(T, treeSetMaxFields(T, x), x)
       IN IF s.done THEN s.T ELSE treeMaxFieldsFixup(s.T, s.x)

\* interval_tree.cc:564, 589  the sibling w of x; left says that x is the
\* left child of its parent
Sibling(T, x, left) ==
  IF left THEN T.n[T.n[x].parent].right ELSE T.n[T.n[x].parent].left

\* interval_tree.cc:568, 584 and 593, 609  the rotation that lifts the
\* sibling of x
RotateToward(T, x, left) ==
  IF left THEN treeLeftRotate(T, x) ELSE treeRightRotate(T, x)

\* interval_tree.cc:578, 603  the rotation of the sibling itself
RotateAway(T, w, left) ==
  IF left THEN treeRightRotate(T, w) ELSE treeLeftRotate(T, w)

\* interval_tree.cc:576, 601  the child of w on the side of x
Near(T, w, left) == IF left THEN T.n[w].left ELSE T.n[w].right

\* interval_tree.cc:575, 583, 600, 608  the child of w away from x
Far(T, w, left) == IF left THEN T.n[w].right ELSE T.n[w].left

\* interval_tree.cc:581-585, 606-610  the last case: recolour, rotate the
\* parent, x = root; then line 614 blackens the root
treeDeleteFixupLast(T, x, left) ==
  LET xp == T.n[x].parent
      w == Sibling(T, x, left)
      far == Far(T, w, left)
  IN treeSetRootBlack(
       RotateToward([T EXCEPT !.n[w].is_red = T.n[xp].is_red,
                              !.n[xp].is_red = FALSE,
                              !.n[far].is_red = FALSE], xp, left))

RECURSIVE treeDeleteFixup(_, _)

\* interval_tree.cc:571-586, 596-611  T is the tree after the first case
treeDeleteFixupSibling(T, x, left) ==
  LET w == Sibling(T, x, left) IN
  IF ~T.n[T.n[w].left].is_red /\ ~T.n[T.n[w].right].is_red
    THEN treeDeleteFixup([T EXCEPT !.n[w].is_red = TRUE], T.n[x].parent)
    ELSE treeDeleteFixupLast(
           IF ~T.n[Far(T, w, left)].is_red
             THEN RotateAway([T EXCEPT !.n[Near(T, w, left)].is_red = FALSE,
                                       !.n[w].is_red = TRUE], w, left)
             ELSE T,
           x, left)

\* interval_tree.cc:564-570, 589-595  the first case: a red sibling
treeDeleteFixupRedSibling(T, x, left) ==
  LET xp == T.n[x].parent
      w == Sibling(T, x, left)
  IN treeDeleteFixupSibling(
       IF T.n[w].is_red
         THEN RotateToward([T EXCEPT !.n[w].is_red = FALSE,
                                     !.n[xp].is_red = TRUE], xp, left)
         ELSE T,
       x, left)

\* interval_tree.cc:559-615
treeDeleteFixup(T, x) ==
  IF x = T.root \/ T.n[x].is_red THEN [T EXCEPT !.n[x].is_red = FALSE]
  ELSE treeDeleteFixupRedSibling(T, x, x = T.n[T.n[x].parent].left)

\* interval_tree.cc:555  delete z
treeDeleteFree(T, z) ==
  [root |-> T.root, n |-> [k \in DOMAIN T.n \ { z } |-> T.n[k]]]

\* interval_tree.cc:553-555  T is the tree with the max fields repaired
treeDeleteRebalance(T, z, x, y_orig_is_red) ==
  treeDeleteFree(IF ~y_orig_is_red THEN treeDeleteFixup(T, x) ELSE T, z)

\* interval_tree.cc:551-555
treeDeleteFinish(T, z, x, y_orig_is_red) ==
  treeDeleteRebalance(treeMaxFieldsFixup(T, T.n[x].parent), z, x,
                      y_orig_is_red)

\* interval_tree.cc:546-548  after treeTransplant(z, y)
treeDeleteAttach(T, z, y, x, y_orig_is_red) ==
  treeDeleteFinish([T EXCEPT !.n[y].left = T.n[z].left,
                             !.n[T.n[z].left].parent = y,
                             !.n[y].is_red = T.n[z].is_red],
                   z, x, y_orig_is_red)

\* interval_tree.cc:542-543  after treeTransplant(y, x)
treeDeleteDetach(T, z, y) ==
  [T EXCEPT !.n[y].right = T.n[z].right, !.n[T.n[z].right].parent = y]

\* interval_tree.cc:536-548  z has two children, y is its successor
treeDeleteSuccessor(T, z, y) ==
  LET x == T.n[y].right IN
  treeDeleteAttach(
    treeTransplant(
      IF T.n[y].parent = z
        THEN [T EXCEPT !.n[x].parent = y]
        ELSE treeDeleteDetach(treeTransplant(T, y, x), z, y),
      z, y),
    z, y, x, T.n[y].is_red)

\* interval_tree.cc:524-556  the node z is freed at the end
treeDelete(T, z) ==
  IF T.n[z].left = NIL
    THEN treeDeleteFinish(treeTransplant(T, z, T.n[z].right), z,
                          T.n[z].right, T.n[z].is_red)
  ELSE IF T.n[z].right = NIL
    THEN treeDeleteFinish(treeTransplant(T, z, T.n[z].left), z,
                          T.n[z].left, T.n[z].is_red)
  ELSE treeDeleteSuccessor(T, z, treeMinimum(T, T.n[z].right))

\* interval_tree.cc:420-443  treeIntervalSearch into a vector
RECURSIVE treeIntervalSearch(_, _, _, _)
treeIntervalSearch(T, test_interval, ret_value, x) ==
  IF x = NIL THEN ret_value
  ELSE IF StrLess(T.n[x].max_high, test_interval.low) THEN ret_value
  ELSE
    LET n == T.n
        r1 == IF n[x].left # NIL
                THEN treeIntervalSearch(T, test_interval, ret_value, n[x].left)
                ELSE ret_value
        r2 == IF Overlaps(n[x].interval, test_interval)
                THEN Append(r1, n[x].interval) ELSE r1
    IN IF StrLess(test_interval.high, n[x].interval.low) THEN r2
       ELSE IF n[x].right # NIL
         THEN treeIntervalSearch(T, test_interval, r2, n[x].right)
       ELSE r2

\* std::sort with std::greater<Interval2DTree>: timestamps descending; the
\* order of equal timestamps is the one this insertion sort leaves
RECURSIVE SortByTimestamp(_)
SortByTimestamp(v) ==
  IF v = <<>> THEN <<>>
  ELSE LET m == CHOOSE i \in 1..Len(v) :
                  \A j \in 1..Len(v) : v[j].timestamp <= v[i].timestamp
       IN << v[m] >> \o
          SortByTimestamp(SubSeq(v, 1, m - 1) \o SubSeq(v, m + 1, Len(v)))

\* interval_tree.cc:231-251
topK(T, ret_value, minKey, maxKey) ==
  LET test == [id |-> <<>>, low |-> minKey, high |-> maxKey, timestamp |-> 0]
  IN SortByTimestamp(treeIntervalSearch(T, test, ret_value, T.root))

\* interval_tree.cc:16-28  split: the text before the first delim, then the
\* rest of that line
NewLine == 10

RECURSIVE TakeUntil(_, _)
TakeUntil(str, c) ==
  IF str = <<>> \/ Head(str) = c THEN <<>>
  ELSE << Head(str) >> \o TakeUntil(Tail(str), c)

RECURSIVE DropThrough(_, _)
DropThrough(str, c) ==
  IF str = <<>> THEN <<>>
  ELSE IF Head(str) = c THEN Tail(str)
  ELSE DropThrough(Tail(str), c)

split(str, delim) ==
  << TakeUntil(str, delim), TakeUntil(DropThrough(str, delim), NewLine) >>

\* ------------------------------------------ Interval2DTreeWithTopK object
NULLPTR == 0
Iterators == { 1, 2 }

\* interval_tree.cc:59  id_delim = '+'
id_delim == 43

\* interval_tree.cc:61  sync_threshold = 10000
DefaultSyncThreshold == 10000

NilNode == [interval |-> [id |-> <<>>, low |-> <<>>, high |-> <<>>,
                          timestamp |-> 0],
            is_red |-> FALSE, max_high |-> <<>>, max_timestamp |-> 0,
            left |-> NIL, right |-> NIL, parent |-> NIL]

EmptyTree == [root |-> NIL, n |-> (NIL :> NilNode)]

\* a TopKIterator that is not constructed
NoIterator == [alive |-> FALSE, iterator_in_use |-> FALSE,
               search_int |-> [id |-> <<>>, low |-> <<>>, high |-> <<>>,
                               timestamp |-> 0],
               nodes |-> {}, explored |-> {},
               yielded |-> <<>>,      \* the intervals next() has returned
               last |-> "none",       \* what the last next() returned
               started_on |-> [root |-> NIL]]  \* the tree start() succeeded on

\* the fields of the tree object and of the iterators, as one value
Object ==
  [tree |-> tree, storage |-> storage, ids |-> ids,
   sync_threshold |-> sync_threshold,
   sync_counter |-> sync_counter, sync_file_data |-> sync_file_data,
   iterator_in_use |-> iterator_in_use, iterator |-> iterator, its |-> its]

\* interval_tree.cc:834-845  TopKIterator::stop
IteratorStop(S, i, release) ==
  IF S.its[i].iterator_in_use
    THEN LET S1 == IF release
                     THEN [S EXCEPT !.iterator = NULLPTR,
                                    !.iterator_in_use = FALSE]
                     ELSE S
         IN [S1 EXCEPT !.its[i].nodes = {}, !.its[i].explored = {},
                       !.its[i].iterator_in_use = FALSE,
                       !.its[i].yielded = <<>>, !.its[i].last = "none",
                       !.its[i].started_on = [root |-> NIL]]
    ELSE S

\* interval_tree.cc:132,165  if (iterator_in_use) iterator->stop();
\* freed is what the flag of an already destroyed iterator reads as
StopRegisteredIterator(S, freed) ==
  IF ~S.iterator_in_use THEN S
  ELSE IF S.its[S.iterator].alive THEN IteratorStop(S, S.iterator, TRUE)
  ELSE IF freed THEN [S EXCEPT !.iterator = NULLPTR, !.iterator_in_use = FALSE]
  ELSE S

\* interval_tree.cc:254-271
sync(S) ==
  [S EXCEPT !.sync_file_data =
              { S.tree.n[S.storage[id]].interval : id \in DOMAIN S.storage },
            !.sync_counter = 0]

\* interval_tree.cc:159-161, 178-180
CountMutation(S) ==
  LET S1 == [S EXCEPT !.sync_counter = @ + 1]
  IN IF S1.sync_counter > S1.sync_threshold THEN sync(S1) ELSE S1

\* interval_tree.cc:171  ids[r.front()], an empty set when it is created
SuffixesOf(S, prefix) ==
  IF prefix \in DOMAIN S.ids THEN S.ids[prefix] ELSE {}

\* interval_tree.cc:168-180  S is the object after line 165, r is the
\* split id
deleteStored(S, id, r) ==
  CountMutation(
    [S EXCEPT
       !.ids = IF SuffixesOf(S, r[1]) \ { r[2] } = {}
                 THEN [k \in DOMAIN S.ids \ { r[1] } |-> S.ids[k]]
                 ELSE [k \in DOMAIN S.ids \cup { r[1] } |->
                         IF k = r[1] THEN SuffixesOf(S, r[1]) \ { r[2] }
                                     ELSE S.ids[k]],
       !.tree = treeDelete(S.tree, S.storage[id]),
       !.storage = [k \in DOMAIN S.storage \ { id } |-> S.storage[k]]])

\* interval_tree.cc:167-181  S is the object after line 165
deleteIntervalStopped(S, id) ==
  IF id \in DOMAIN S.storage
    THEN deleteStored(S, id, split(id, id_delim))
    ELSE S

\* interval_tree.cc:164-182
deleteInterval(S, id, freed) ==
  deleteIntervalStopped(StopRegisteredIterator(S, freed), id)

\* new Interval2DTreeNode: an address no allocated node has
RECURSIVE NewNode(_, _)
NewNode(T, a) == IF a \in DOMAIN T.n THEN NewNode(T, a \o << 0 >>) ELSE a

\* interval_tree.cc:152-154  S is the object after line 150, r is the
\* split id, z the new node
insertRecord(S, id, r, z) ==
  [S EXCEPT
     !.ids = [k \in DOMAIN S.ids \cup { r[1] } |->
                IF k = r[1] THEN SuffixesOf(S, k) \cup { r[2] }
                            ELSE S.ids[k]],
     !.storage = [k \in DOMAIN S.storage \cup { id } |->
                    IF k = id THEN z ELSE S.storage[k]]]

\* interval_tree.cc:156-161  z gets its interval and is linked
insertLink(S, z, iv) ==
  CountMutation([S EXCEPT !.tree = treeInsert(S.tree, z, iv)])

\* interval_tree.cc:152-161
insertNode(S, id, r, z, iv) == insertLink(insertRecord(S, id, r, z), z, iv)

\* interval_tree.cc:150-161  S is the object after line 148
insertNew(S, id, r, iv) == insertNode(S, id, r, NewNode(S.tree, id), iv)

\* interval_tree.cc:144-150  S is the object after line 132
insertPrepared(S, id, r, freed) ==
  IF r[1] \notin DOMAIN S.ids
    THEN [S EXCEPT !.ids = [k \in DOMAIN S.ids \cup { r[1] } |->
                              IF k = r[1] THEN {} ELSE S.ids[k]]]
  ELSE IF r[2] \in S.ids[r[1]]
    THEN deleteInterval(S, id, freed)
  ELSE S

\* interval_tree.cc:134-161  S is the object after line 132
insertIntervalStopped(S, id, r, iv, freed) ==
  IF id = <<>> THEN S
  ELSE insertNew(insertPrepared(S, id, r, freed), id, r, iv)

\* interval_tree.cc:128-162
insertInterval(S, id, minKey, maxKey, maxTimestamp, freed) ==
  insertIntervalStopped(StopRegisteredIterator(S, freed), id,
                        split(id, id_delim),
                        [id |-> id, low |-> minKey, high |-> maxKey,
                         timestamp |-> maxTimestamp],
                        freed)

\* interval_tree.cc:203-213  getInterval: the interval it gives, or
\* threw when storage.at(id) finds no such id
getInterval(S, id) ==
  IF /\ split(id, id_delim)[1] \in DOMAIN S.ids
     /\ split(id, id_delim)[2] \in S.ids[split(id, id_delim)[1]]
    THEN IF id \in DOMAIN S.storage
           THEN [threw |-> FALSE,
                 ret_interval |-> S.tree.n[S.storage[id]].interval]
           ELSE [threw |-> TRUE, ret_interval |-> NilNode.interval]
    ELSE [threw |-> FALSE,
          ret_interval |-> [id |-> <<>>, low |-> <<>>, high |-> <<>>,
                            timestamp |-> 0]]

\* interval_tree.cc:191-192  the id of one suffix of id_prefix
PrefixedId(id_prefix, suffix) ==
  IF suffix = <<>> THEN id_prefix ELSE id_prefix \o << id_delim >> \o suffix

\* interval_tree.cc:195-198
RECURSIVE DeleteEach(_, _, _)
DeleteEach(S, intervals_to_delete, freed) ==
  IF intervals_to_delete = <<>> THEN S
  ELSE DeleteEach(deleteInterval(S, Head(intervals_to_delete), freed),
                  Tail(intervals_to_delete), freed)

\* interval_tree.cc:185-200  intervals_to_delete lists the ids of
\* ids[id_prefix] in the order the unordered_set iterates them
deleteAllIntervals(S, id_prefix, intervals_to_delete, freed) ==
  IF id_prefix \in DOMAIN S.ids
    THEN DeleteEach(S, intervals_to_delete, freed)
    ELSE S

\* the orders in which a set can be iterated
Orders(set) ==
  { o \in [1..Cardinality(set) -> set] :
      \A i, j \in 1..Cardinality(set) : i # j => o[i] # o[j] }


\* interval_tree.cc:848-862  TopKIterator::start
IteratorStart(S, i, min, max) ==
  IF S.tree.root # NIL /\ ~S.iterator_in_use
    THEN [ok |-> TRUE,
          S |-> [S EXCEPT
                   !.iterator_in_use = TRUE,
                   !.iterator = i,
                   !.its[i].search_int = [id |-> <<>>, low |-> min,
                                          high |-> max, timestamp |-> 0],
                   !.its[i].iterator_in_use = TRUE,
                   !.its[i].yielded = <<>>,
                   !.its[i].last = "none",
                   !.its[i].started_on = S.tree,
                   !.its[i].nodes = @ \cup
                      { [node |-> S.tree.root,
                         p |-> S.tree.n[S.tree.root].max_timestamp] }]]
    ELSE [ok |-> FALSE, S |-> S]

\* std::pop_heap with heapCompare (interval_tree.cc:750-755): an entry no
\* other entry has a larger second component than
HeapTop(nodes) ==
  CHOOSE e \in nodes : \A f \in nodes : f.p <= e.p

\* interval_tree.cc:779-825  TopKIterator::next; dangling is set when the
\* popped node is no longer allocated
RECURSIVE IteratorNext(_, _)
IteratorNext(T, it) ==
  IF ~it.iterator_in_use \/ it.nodes = {}
    THEN [it |-> [it EXCEPT !.last = "false"], dangling |-> FALSE]
  ELSE
    LET e == HeapTop(it.nodes)
        x == e.node
        p == e.p
        n == T.n
        nodes1 == it.nodes \ { e }
    IN
    IF x \notin DOMAIN n
      THEN [it |-> [it EXCEPT !.nodes = nodes1], dangling |-> TRUE]
    ELSE
      LET l == n[x].left
          r == n[x].right
          pushL == IF x \notin it.explored /\ l # NIL
                      /\ StrLeq(it.search_int.low, n[l].max_high)
                     THEN { [node |-> l, p |-> n[l].max_timestamp] } ELSE {}
          pushR == IF x \notin it.explored /\ r # NIL
                      /\ StrLeq(it.search_int.low, n[r].max_high)
                     THEN { [node |-> r, p |-> n[r].max_timestamp] } ELSE {}
          nodes2 == nodes1 \cup pushL \cup pushR
          t == n[x].interval.timestamp
      IN
      IF Overlaps(n[x].interval, it.search_int)
        THEN IF t < p
          THEN IteratorNext(T, [it EXCEPT
                                  !.nodes = nodes2 \cup
                                              { [node |-> x, p |-> t] },
                                  !.explored = @ \cup { x }])
          ELSE [it |-> [it EXCEPT !.nodes = nodes2,
                                  !.yielded = Append(@, n[x].interval),
                                  !.last = "true"],
                dangling |-> FALSE]
        ELSE IteratorNext(T, [it EXCEPT !.nodes = nodes2])

\* the operations leave the object in state S
Becomes(S) ==
  /\ tree' = S.tree
  /\ storage' = S.storage
  /\ ids' = S.ids
  /\ sync_counter' = S.sync_counter
  /\ sync_file_data' = S.sync_file_data
  /\ iterator_in_use' = S.iterator_in_use
  /\ iterator' = S.iterator
  /\ its' = S.its

\* a caller of the tree that is not inside topK and has not run into a
\* freed node
Idle == ~ub /\ topk_call = NoCall

\* the next mutation checkpoints, or the counter is below its bound
CounterBounded ==
  sync_counter + 1 > sync_threshold \/ sync_counter < MaxSyncCounter

InsertInterval(id, minKey, maxKey, maxTimestamp, freed) ==
  /\ Idle
  /\ CounterBounded
  /\ Becomes(insertInterval(Object, id, minKey, maxKey, maxTimestamp, freed))
  /\ UNCHANGED << storeVars, sync_threshold, topk_call, topk_out, ub >>

DeleteInterval(id, freed) ==
  /\ Idle
  /\ CounterBounded
  /\ Becomes(deleteInterval(Object, id, freed))
  /\ UNCHANGED << storeVars, sync_threshold, topk_call, topk_out, ub >>

DeleteAllIntervals(id_prefix, freed) ==
  /\ Idle
  /\ CounterBounded
  /\ \E o \in Orders(IF id_prefix \in DOMAIN ids
                       THEN { PrefixedId(id_prefix, s) : s \in ids[id_prefix] }
                       ELSE {}) :
       Becomes(deleteAllIntervals(Object, id_prefix, o, freed))
  /\ UNCHANGED << storeVars, sync_threshold, topk_call, topk_out, ub >>

Sync ==
  /\ Idle
  /\ Becomes(sync(Object))
  /\ UNCHANGED << storeVars, sync_threshold, topk_call, topk_out, ub >>

\* interval_tree.cc:281-283
SetSyncThreshold(threshold) ==
  /\ Idle
  /\ sync_threshold' = threshold
  /\ UNCHANGED << storeVars, tree, storage, ids, sync_counter,
                  sync_file_data, iterator_in_use, iterator, its,
                  topk_call, topk_out, ub >>

\* interval_tree.cc:231-251  topK on an empty vector
TopK(minKey, maxKey) ==
  /\ Idle
  /\ topk_call' = [op |-> "topK", minKey |-> minKey, maxKey |-> maxKey]
  /\ topk_out' = topK(tree, <<>>, minKey, maxKey)
  /\ UNCHANGED << storeVars, tree, storage, ids, sync_threshold,
                  sync_counter, sync_file_data, iterator_in_use, iterator,
                  its, ub >>

\* the caller is done with the vector
TopKReturn ==
  /\ ~ub
  /\ topk_call # NoCall
  /\ topk_call' = NoCall
  /\ topk_out' = <<>>
  /\ UNCHANGED << storeVars, tree, storage, ids, sync_threshold,
                  sync_counter, sync_file_data, iterator_in_use, iterator,
                  its, ub >>


\* interval_tree.cc:758-768  the constructor; garbage is what the member
\* iterator_in_use, which no initializer sets, holds when start() fails
IterConstruct(i, min, max, garbage) ==
  /\ ~ub
  /\ ~its[i].alive
  /\ LET S0 == [Object EXCEPT
                  !.its[i] = [NoIterator EXCEPT !.alive = TRUE,
                                                !.iterator_in_use = garbage]]
     IN Becomes(IteratorStart(S0, i, min, max).S)
  /\ UNCHANGED << storeVars, sync_threshold, topk_call, topk_out, ub >>

\* interval_tree.cc:771-776  the destructor
IterDestruct(i) ==
  /\ ~ub
  /\ its[i].alive
  /\ LET S1 == IF its[i].iterator_in_use
                 THEN [Object EXCEPT !.iterator = NULLPTR,
                                     !.iterator_in_use = FALSE]
                 ELSE Object
     IN Becomes([S1 EXCEPT !.its[i] = NoIterator])
  /\ UNCHANGED << storeVars, sync_threshold, topk_call, topk_out, ub >>

IterNext(i) ==
  /\ ~ub
  /\ its[i].alive
  /\ LET r == IteratorNext(tree, its[i])
     IN /\ its' = [its EXCEPT ![i] = r.it]
        /\ ub' = r.dangling
  /\ UNCHANGED << storeVars, tree, storage, ids, sync_threshold,
                  sync_counter, sync_file_data, iterator_in_use, iterator,
                  topk_call, topk_out >>

IterStop(i, release) ==
  /\ ~ub
  /\ its[i].alive
  /\ Becomes(IteratorStop(Object, i, release))
  /\ UNCHANGED << storeVars, sync_threshold, topk_call, topk_out, ub >>

\* interval_tree.cc:828-831
IterRestart(i, min, max) ==
  /\ ~ub
  /\ its[i].alive
  /\ Becomes(IteratorStart(IteratorStop(Object, i, FALSE), i, min, max).S)
  /\ UNCHANGED << storeVars, sync_threshold, topk_call, topk_out, ub >>

\* interval_tree.cc:139  new Interval2DTreeNode: the constructors
\* (interval_tree.h:18, 52) set is_red and leave the strings empty; the
\* timestamps hold what the memory held, and so do left, right and parent,
\* which the model writes as NIL and which no action reads before
\* treeInsert has set them
Allocated(S, z, indeterminate) ==
  [S EXCEPT !.tree.n =
     [k \in DOMAIN S.tree.n \cup { z } |->
        IF k = z
          THEN [NilNode EXCEPT !.interval.timestamp = indeterminate,
                               !.max_timestamp = indeterminate]
          ELSE S.tree.n[k]]]

\* interval_tree.cc:139-154  S is the object after line 150: the node is
\* allocated and recorded in ids and storage, and not yet in the tree
InsertBeginAt(S, id, r, iv, indeterminate) ==
  /\ Becomes(insertRecord(Allocated(S, NewNode(S.tree, id), indeterminate),
                          id, r, NewNode(S.tree, id)))
  /\ linking' = [op |-> "insertInterval", id |-> id,
                 z |-> NewNode(S.tree, id), iv |-> iv]

\* interval_tree.cc:128-154  the first part of insertInterval, run by a
\* thread of its own; the class has no lock, so other calls run before
\* InsertEnd
InsertBegin(id, minKey, maxKey, maxTimestamp, indeterminate) ==
  /\ ~ub
  /\ linking = NoCall
  /\ CounterBounded
  /\ id # <<>>
  /\ InsertBeginAt(insertPrepared(StopRegisteredIterator(Object, FALSE), id,
                                  split(id, id_delim), FALSE),
                   id, split(id, id_delim),
                   [id |-> id, low |-> minKey, high |-> maxKey,
                    timestamp |-> maxTimestamp],
                   indeterminate)
  /\ UNCHANGED << lockVars, fileVars, memVars, queryVars, sync_threshold,
                  topk_call, topk_out, ub >>

\* interval_tree.cc:156-161  the rest of that insertInterval
InsertEnd ==
  /\ ~ub
  /\ linking # NoCall
  /\ Becomes(insertLink(Object, linking.z, linking.iv))
  /\ linking' = NoCall
  /\ UNCHANGED << lockVars, fileVars, memVars, queryVars, sync_threshold,
                  topk_call, topk_out, ub >>

\* interval_tree.cc:164-174  deleteInterval of the id that is being
\* inserted: storage[id] is the node whose left, right and parent no one
\* has set, and treeDelete reads them
RacingDelete(id) ==
  /\ Idle
  /\ linking # NoCall
  /\ id = linking.id
  /\ ub' = TRUE
  /\ UNCHANGED << storeVars, tree, storage, ids, sync_threshold,
                  sync_counter, sync_file_data, iterator_in_use, iterator,
                  its, topk_call, topk_out >>

\* interval_tree.cc:92-96  the loop over the list read from the file
RECURSIVE InsertEach(_, _)
InsertEach(S, l) ==
  IF l = <<>> THEN S
  ELSE InsertEach(insertInterval(S, Head(l).id, Head(l).low, Head(l).high,
                                 Head(l).timestamp, FALSE),
                  Tail(l))

\* interval_tree.cc:254-266  the elements of the list l that sync() builds
\* and whose std::list object it writes to the file
Written == sync(Object).sync_file_data

\* interval_tree.cc:57-74  setDefaults, on the file the destructor of the
\* previous tree has written (interval_tree.cc:122-125)
Reconstructed ==
  [tree |-> EmptyTree, storage |-> <<>>, ids |-> <<>>,
   sync_threshold |-> DefaultSyncThreshold, sync_counter |-> 0,
   sync_file_data |-> Written,
   iterator_in_use |-> FALSE, iterator |-> NULLPTR, its |-> its]

\* interval_tree.cc:80-119, 122-125  the tree is destroyed and a new one is
\* constructed from its file with sync_from_file = true. The file holds
\* the bytes of the std::list object, not its elements: ifile.read puts
\* pointers to the freed list nodes into l, and walking l is undefined. l
\* is what the walk finds there, crashed says that it ends in a fault
Reopen(l, crashed) ==
  /\ Idle
  /\ \A i \in Iterators : ~its[i].alive
  /\ Becomes(InsertEach(Reconstructed, l))
  /\ sync_threshold' = DefaultSyncThreshold
  /\ ub' = crashed
  /\ UNCHANGED << storeVars, topk_call, topk_out >>

\* ================================================ table/table_builder.cc
\* rep_ holds the fields of TableBuilder::Rep and of the TableBuilder that
\* the secondary index reads or writes.  A key is an internal key: the user
\* key and the tag (seq, type).  blocks are the data blocks written to the
\* file, in order; smallest_sec and largest_sec are the strings the
\* pointers smallest_sec_ and largest_sec_ name.  The size estimate of a
\* data block counts its entries.  handed is history: the entries Add was
\* called with, in order.
file_number_ == 1

\* the last_key of a builder that has added nothing
NoKey == [key |-> <<>>, seq |-> 0, type |-> kTypeValue]

\* table_builder.cc:30-55, 93-111  Rep::Rep and the constructor
\* interval_tree_ tells that the pointer the constructor got is not null
NewRep(filter_policy, secondary_key, file_name, block_size, interval_tree) ==
  [closed |-> FALSE,
   interval_tree_ |-> interval_tree,
   filter_policy |-> filter_policy,
   secondary_key |-> secondary_key,
   interval_tree_file_name |-> file_name,
   block_size |-> block_size,
   data_block |-> <<>>,
   blocks |-> <<>>,
   index_block |-> <<>>,
   interval_block |-> <<>>,
   secondary_filter_block |-> {},
   last_key |-> NoKey,
   num_entries |-> 0,
   pending_index_entry |-> FALSE,
   min_sec_value |-> <<>>,
   max_sec_value |-> <<>>,
   max_sec_seq_number |-> 0,
   smallest_sec |-> <<>>,
   largest_sec |-> <<>>,
   handed |-> <<>>]

\* the internal key of an entry
KeyOf(e) == [key |-> e.key, seq |-> e.seq, type |-> e.type]

\* table_builder.cc:240-259  TableBuilder::Flush: the data block goes to
\* the file and the index entry is owed
TableBuilderFlush(r) ==
  IF r.data_block = <<>> THEN r
  ELSE [r EXCEPT !.blocks = Append(@, r.data_block),
                 !.data_block = <<>>,
                 !.pending_index_entry = TRUE]

\* lines 196-199, 234-237
FlushIfFull(r) ==
  IF Len(r.data_block) >= r.block_size THEN TableBuilderFlush(r) ELSE r

\* lines 144-147, 380-384  the id of the block in the tree
BlockId(r) == DecimalString(file_number_) \o << 43 >> \o r.last_key.key

\* lines 154-164, 391-401
SecRange(r) ==
  IF r.smallest_sec = <<>>
    THEN [r EXCEPT !.smallest_sec = r.min_sec_value,
                   !.largest_sec = r.max_sec_value]
  ELSE IF StrLess(r.min_sec_value, r.smallest_sec)
    THEN [r EXCEPT !.smallest_sec = r.min_sec_value]
  ELSE IF StrLess(r.largest_sec, r.max_sec_value)
    THEN [r EXCEPT !.largest_sec = r.max_sec_value]
  ELSE r

\* lines 149-151, 386-388
IntervalBlockAdd(r) ==
  IF r.interval_tree_file_name # <<>> THEN r
  ELSE [r EXCEPT !.interval_block =
                   Append(@, << r.min_sec_value, r.max_sec_value >>)]

\* lines 380, 386-388  in Finish the interval block also takes the entry
\* when the builder has no tree
FinishIntervalBlockAdd(r) ==
  IF r.interval_tree_file_name # <<>> /\ r.interval_tree_ THEN r
  ELSE [r EXCEPT !.interval_block =
                   Append(@, << r.min_sec_value, r.max_sec_value >>)]

\* lines 154-176, 391-410  the rest of a block boundary; added is the
\* builder after the range record of the block
EmitRest(r, added) ==
  [SecRange(added) EXCEPT
     !.min_sec_value = <<>>,
     !.max_sec_value = <<>>,
     !.max_sec_seq_number = 0,
     !.index_block = Append(@, r.last_key),
     !.pending_index_entry = FALSE]

\* lines 143-177  the builder's part of a block boundary in Add
EmitPending(r) == EmitRest(r, IntervalBlockAdd(r))

Emitted(r) == IF r.pending_index_entry THEN EmitPending(r) ELSE r

\* lines 144-148, 380-385  the tree's part of a block boundary
InsertsBlock(r) ==
  r.pending_index_entry /\ r.interval_tree_file_name # <<>>

\* line 380  Finish asks for the tree too
FinishInsertsBlock(r) == InsertsBlock(r) /\ r.interval_tree_

TreeWithBlock(r) ==
  IF InsertsBlock(r)
    THEN insertInterval(Object, BlockId(r), r.min_sec_value,
                        r.max_sec_value, r.max_sec_seq_number, FALSE)
    ELSE Object

\* lines 215-237
AddRecord(r, e) ==
  FlushIfFull([r EXCEPT
    !.last_key = KeyOf(e),
    !.num_entries = @ + 1,
    !.data_block = Append(@, e),
    !.max_sec_seq_number = IF @ < e.seq THEN e.seq ELSE @])

\* lines 193-201  the payload yields no secondary value
AddUnextracted(r, e) ==
  FlushIfFull([r EXCEPT
    !.last_key = KeyOf(e),
    !.num_entries = @ + 1,
    !.data_block = Append(@, e)])

\* the range logic with the tests of lines 206 and 210 exchanged
RangeLogicExchanged(r, e, sec_keys) ==
  [r EXCEPT
     !.secondary_filter_block = @ \cup { << sec_keys, e.seq, e.type >> },
     !.max_sec_value = IF @ = <<>> \/ StrLess(sec_keys, @)
                         THEN sec_keys ELSE @,
     !.min_sec_value = IF @ = <<>> \/ StrLess(@, sec_keys)
                         THEN sec_keys ELSE @]

\* lines 203-214  the composite key and the range logic
RangeLogic(r, e, sec_keys) ==
  [r EXCEPT
     !.secondary_filter_block = @ \cup { << sec_keys, e.seq, e.type >> },
     !.max_sec_value = IF @ = <<>> \/ StrLess(@, sec_keys)
                         THEN sec_keys ELSE @,
     !.min_sec_value = IF @ = <<>> \/ StrLess(sec_keys, @)
                         THEN sec_keys ELSE @]

\* lines 183-237  r is the builder after the block boundary
AddEntry(r, e, extracted) ==
  IF ~r.filter_policy THEN AddRecord(r, e)
  ELSE IF r.secondary_key = "" THEN r
  ELSE IF extracted.st # Status_OK THEN AddUnextracted(r, e)
  ELSE AddRecord(RangeLogic(r, e, extracted.key_attr), e)

\* TableBuilder::TableBuilder
NewTableBuilder(filter_policy, secondary_key, file_name, block_size, itree) ==
  /\ rep_ = NoBuilder
  /\ rep_' = NewRep(filter_policy, secondary_key, file_name, block_size,
                    itree)
  /\ UNCHANGED << lockVars, linking, sstable, memVars, queryVars, treeVars >>

\* table_builder.cc:135-238  TableBuilder::Add; the keys come in
\* increasing order
\* increasing order.  Line 145 calls insertInterval through interval_tree_
\* unchecked: with a null pointer the behaviour is undefined, and the
\* process dies there or goes on without the call
TableBuilderAdd(e) ==
  /\ ~rep_.closed
  /\ ~ub
  /\ rep_.handed # <<>> =>
       InternalLess(rep_.handed[Len(rep_.handed)], e)
  /\ IF InsertsBlock(rep_) /\ ~rep_.interval_tree_
       THEN /\ ub' = TRUE
            /\ \E dies \in BOOLEAN :
                 rep_' = IF dies THEN rep_
                         ELSE [AddEntry(Emitted(rep_), e,
                                 ExtractKeyFromJSON(e.value,
                                                    rep_.secondary_key))
                                 EXCEPT !.handed = Append(@, e)]
            /\ Becomes(Object)
       ELSE /\ InsertsBlock(rep_) => Idle /\ CounterBounded
            /\ rep_' = [AddEntry(Emitted(rep_), e,
                           ExtractKeyFromJSON(e.value, rep_.secondary_key))
                          EXCEPT !.handed = Append(@, e)]
            /\ Becomes(TreeWithBlock(rep_))
            /\ ub' = ub
  /\ UNCHANGED << lockVars, linking, sstable, memVars, queryVars,
                  sync_threshold, topk_call, topk_out >>

\* a call of TableBuilder::Flush by the user of the builder
Flush ==
  /\ ~rep_.closed
  /\ ~ub
  /\ rep_.data_block # <<>>
  /\ rep_' = TableBuilderFlush(rep_)
  /\ UNCHANGED << lockVars, linking, sstable, memVars, queryVars, treeVars >>

\* table_builder.cc:332-430  TableBuilder::Finish
Finished(r) ==
  [IF r.pending_index_entry THEN EmitRest(r, FinishIntervalBlockAdd(r))
                            ELSE r
     EXCEPT !.closed = TRUE]

TableBuilderFinish ==
  /\ ~rep_.closed
  /\ ~ub
  /\ FinishInsertsBlock(TableBuilderFlush(rep_)) => Idle /\ CounterBounded
  /\ rep_' = Finished(TableBuilderFlush(rep_))
  /\ Becomes(IF FinishInsertsBlock(TableBuilderFlush(rep_))
               THEN sync(TreeWithBlock(TableBuilderFlush(rep_)))
               ELSE Object)
  /\ UNCHANGED << lockVars, linking, sstable, memVars, queryVars,
                  sync_threshold, topk_call, topk_out, ub >>

\* --------------------------------------------- the inputs of the builder
\* {"age":""}
DocAgeEmpty == [isObject |-> TRUE, members |-> [age |-> JsonString(<<>>)]]

\* the internal keys "1"@2, "1"@1, "2"@3, in the order of the comparator
BuilderKeys == { [key |-> << 49 >>, seq |-> 2], [key |-> << 49 >>, seq |-> 1],
                 [key |-> << 50 >>, seq |-> 3] }

BuilderEntries ==
  { [key |-> k.key, seq |-> k.seq, type |-> kTypeValue, value |-> v] :
      k \in BuilderKeys, v \in Payloads \cup { DocAgeEmpty } }
  \cup
  { [key |-> k.key, seq |-> k.seq, type |-> kTypeDeletion,
     value |-> EmptyValue] : k \in BuilderKeys }

\* options.secondary_key, options.interval_tree_file_name ("" or "t"),
\* options.block_size
SecondaryKeys == { "age", "" }
IntervalTreeFileNames == { <<>>, << 116 >> }
BlockSizes == { 1, 2, 3 }

\* ======================================================== table/table.cc
\* sstable is what Table::Open returned: its status and, when it is OK, the
\* fields of Table::Rep the secondary lookups read.  The data blocks of the
\* file are reached through the handles of the index block.  A pointer is
\* [null, ...]; the 8 bytes that end the key of a point lookup are the
\* tag (snapshot, kTypeValue) of the caller.
Status_Corruption == "Corruption"

NoFilter == [null |-> TRUE, keys |-> {}]
NoBlock == [null |-> TRUE, entries |-> <<>>]

\* table.cc:123-156, 182-203  Table::ReadMeta, Table::ReadSecondaryFilter
ReadSecondaryFilter(r, meta_ok, filter_ok) ==
  IF ~r.filter_policy THEN NoFilter
  ELSE IF ~meta_ok THEN NoFilter
  ELSE IF ~filter_ok THEN NoFilter
  ELSE [null |-> FALSE, keys |-> r.secondary_filter_block]

\* table.cc:85-98  the status after the reads of the index block and of
\* the interval block
OpenStatus(r, index_ok, interval_ok) ==
  IF ~index_ok THEN Status_Corruption
  ELSE IF r.interval_tree_file_name = <<>> /\ ~interval_ok
    THEN Status_Corruption
  ELSE Status_OK

\* table.cc:100-118  the Table of an Open that succeeded
OpenedTable(r, meta_ok, filter_ok) ==
  [status |-> Status_OK,
   index_block |-> r.index_block,
   blocks |-> r.blocks,
   interval_block |-> IF r.interval_tree_file_name = <<>>
                        THEN [null |-> FALSE, entries |-> r.interval_block]
                        ELSE NoBlock,
   secondary_filter |-> ReadSecondaryFilter(r, meta_ok, filter_ok)]

\* table.cc:53-121  Table::Open on the file a builder finished; the
\* arguments are the outcomes of the four ReadBlock calls
TableOpen(index_ok, interval_ok, meta_ok, filter_ok) ==
  /\ rep_ # NoBuilder
  /\ rep_.closed
  /\ sstable = NoTable
  /\ sstable' =
       IF OpenStatus(rep_, index_ok, interval_ok) = Status_OK
         THEN OpenedTable(rep_, meta_ok, filter_ok)
         ELSE [status |-> OpenStatus(rep_, index_ok, interval_ok)]
  /\ UNCHANGED << lockVars, linking, rep_, memVars, queryVars, treeVars >>

\* table.cc:495-500, 445-450  the entry of the interval block that goes
\* with the i-th index entry; key and value stay empty when the iterator
\* of the interval block is not valid
IntervalAt(T, i) ==
  IF i <= Len(T.interval_block.entries)
    THEN T.interval_block.entries[i]
    ELSE << <<>>, <<>> >>

\* FilterBlockReader::KeyMayMatch: a key that was added matches; whether
\* another key matches is the filter's false positive
KeyMayMatch(filter, k, false_positive) == k \in filter.keys \/ false_positive

\* table.cc:501-504  the block is not opened
PointSkips(T, iv, sk, k, false_positive) ==
  \/ StrLess(sk, iv[1])
  \/ StrLess(iv[2], sk)
  \/ /\ ~T.secondary_filter.null
     /\ ~KeyMayMatch(T.secondary_filter, k, false_positive)

\* table.cc:477-531  Table::InternalGetWithInterval from index entry i on;
\* k is the key of the lookup, sk the key without its last 8 bytes
RECURSIVE InternalGetWithInterval(_, _, _, _, _, _, _)
InternalGetWithInterval(T, i, sk, k, st, q, false_positive) ==
  IF i > Len(T.index_block) THEN st
  ELSE InternalGetWithInterval(T, i + 1, sk, k,
         IF PointSkips(T, IntervalAt(T, i), sk, k, false_positive)
           THEN st
           ELSE ScanEntries(T.blocks[i], 1, st, q),
         q, false_positive)

\* table.cc:451-452  the block is not opened
RangeSkips(iv, startk, endk) == StrLess(iv[2], startk) \/ StrLess(endk, iv[1])

\* table.cc:427-475  Table::RangeInternalGetWithInterval from entry i on
RECURSIVE RangeInternalGetWithInterval(_, _, _, _, _, _)
RangeInternalGetWithInterval(T, i, startk, endk, st, q) ==
  IF i > Len(T.index_block) THEN st
  ELSE RangeInternalGetWithInterval(T, i + 1, startk, endk,
         IF RangeSkips(IntervalAt(T, i), startk, endk)
           THEN st
           ELSE ScanEntries(T.blocks[i], 1, st, q),
         q)

\* the result of a point lookup and of a range lookup in table T
PointResult(T, skey, snapshot, top_k_output, false_positive) ==
  InternalGetWithInterval(T, 1, skey, << skey, snapshot, kTypeValue >>,
    EmptyHeap,
    [op |-> "get", low |-> skey, high |-> skey,
     snapshot |-> snapshot, k |-> top_k_output],
    false_positive)

RangeResult(T, low, high, snapshot, top_k_output) ==
  RangeInternalGetWithInterval(T, 1, low, high, EmptyHeap,
    [op |-> "range", low |-> low, high |-> high,
     snapshot |-> snapshot, k |-> top_k_output])

\* the table can answer: Open succeeded and the interval block is there
Readable == sstable # NoTable /\ sstable.status = Status_OK
            /\ ~sstable.interval_block.null

\* a secondary point lookup in the table, with a fresh heap
TableGet(skey, snapshot, top_k_output, false_positive) ==
  /\ Readable
  /\ query = NoQuery
  /\ query' = [op |-> "get", low |-> skey, high |-> skey,
               snapshot |-> snapshot, k |-> top_k_output]
  /\ acc' = PointResult(sstable, skey, snapshot, top_k_output,
                        false_positive).acc
  /\ result_set' = PointResult(sstable, skey, snapshot, top_k_output,
                               false_positive).result_set
  /\ out' = SortNewestFirst(PointResult(sstable, skey, snapshot,
                                        top_k_output, false_positive).acc)
  /\ UNCHANGED << lockVars, linking, fileVars, memVars, treeVars >>

\* a secondary range lookup in the table, with a fresh heap
TableRangeGet(low, high, snapshot, top_k_output) ==
  /\ Readable
  /\ query = NoQuery
  /\ query' = [op |-> "range", low |-> low, high |-> high,
               snapshot |-> snapshot, k |-> top_k_output]
  /\ acc' = RangeResult(sstable, low, high, snapshot, top_k_output).acc
  /\ result_set' =
       RangeResult(sstable, low, high, snapshot, top_k_output).result_set
  /\ out' = SortNewestFirst(
              RangeResult(sstable, low, high, snapshot, top_k_output).acc)
  /\ UNCHANGED << lockVars, linking, fileVars, memVars, treeVars >>

\* ------------------------------------------- the inputs of the extractor
\* values of an attribute: "", "3", 0, 5, 10, -1, -10, true, false, null,
\* an array, an object
ExtractValues ==
  { JsonString(<<>>), JsonString(<< 51 >>), JsonUint(0), JsonUint(5),
    JsonUint(10), JsonInt(0 - 1), JsonInt(0 - 10), JsonBool(TRUE),
    JsonBool(FALSE), JsonNull, JsonArray, JsonObject }

\* a payload that is no object, and the objects with the attributes age
\* and name, both, one or none
ExtractDocs ==
  { EmptyValue } \cup
  { [isObject |-> TRUE, members |-> m] :
      m \in UNION { [D -> ExtractValues] : D \in SUBSET { "age", "name" } } }

ExtractAttributes == { "age", "name", "" }

\* ---------------------------------------------- the inputs of the tree
IntervalIds == { << 49, 43, 97 >>, << 49, 43, 98 >>, << 50, 43, 97 >>, << 50 >> }
Prefixes == { << 49 >>, << 50 >> }
Points == { << 49 >>, << 50 >>, << 51 >>, << 52 >> }
SyncThresholds == { 0 }

Ranges == { << << 49 >>, << 52 >> >>, << << 52 >>, << 52 >> >>,
            << << 50 >>, << 51 >> >>, << << 49 >>, << 49 >> >> }

\* the intervals the callers store: id, low, high, timestamp
StoredIntervals ==
  { << << 49, 43, 97 >>, << 50 >>, << 50 >>, 1 >>,
    << << 49, 43, 98 >>, << 49 >>, << 49 >>, 2 >>,
    << << 50, 43, 97 >>, << 52 >>, << 52 >>, 2 >>,
    << << 50 >>, << 51 >>, << 51 >>, 1 >>,
    << << 49, 43, 97 >>, << 49 >>, << 52 >>, 2 >>,
    << << 50 >>, << 50 >>, << 51 >>, 3 >>,
    << <<>>, << 49 >>, << 49 >>, 1 >> }
\* the intervals and the ranges of the callers that walk the tree
WalkIntervals ==
  { << << 49, 43, 97 >>, << 50 >>, << 50 >>, 1 >>,
    << << 49, 43, 98 >>, << 49 >>, << 49 >>, 2 >>,
    << << 50, 43, 97 >>, << 52 >>, << 52 >>, 2 >>,
    << << 50 >>, << 51 >>, << 51 >>, 1 >> }
\* what an uninitialised uint64_t may hold
Indeterminate == { 0, 9 }
\* the iterator that walks alone
Walkers == { 1 }
\* the intervals stored while two iterators ask for the tree
HoldIntervals ==
  { << << 49, 43, 98 >>, << 49 >>, << 49 >>, 2 >>,
    << << 50, 43, 97 >>, << 52 >>, << 52 >>, 2 >> }
\* caller 1 walks "1".."4", caller 2 walks "4".."4"
WalkRanges == << { << << 49 >>, << 52 >> >> }, { << << 52 >>, << 52 >> >> } >>

\* intervals whose ids split into the same prefix and suffix: "1", "1+",
\* "1+a<newline>b", and one of another prefix, "2+a"
IdIntervals ==
  { << << 49 >>, << 49 >>, << 49 >>, 1 >>,
    << << 49, 43 >>, << 50 >>, << 50 >>, 2 >>,
    << << 49, 43 >>, << 49 >>, << 52 >>, 3 >>,
    << << 49, 43, 97, 10, 98 >>, << 51 >>, << 51 >>, 1 >>,
    << << 50, 43, 97 >>, << 52 >>, << 52 >>, 2 >> }
IdSyncThresholds == { 1 }


Init ==
  /\ table_ = {}
  /\ secondary_table_ = <<>>
  /\ last_sequence = 0
  /\ tables = <<>>
  /\ query = NoQuery
  /\ acc = <<>>
  /\ result_set = {}
  /\ out = <<>>
  /\ tree = EmptyTree
  /\ storage = <<>>
  /\ ids = <<>>
  /\ sync_threshold = DefaultSyncThreshold
  /\ sync_counter = 0
  /\ sync_file_data = {}
  /\ iterator_in_use = FALSE
  /\ iterator = NULLPTR
  /\ its = [i \in Iterators |-> NoIterator]
  /\ topk_call = NoCall
  /\ topk_out = <<>>
  /\ ub = FALSE
  /\ mutex_ = Nobody
  /\ adding = NoCall
  /\ linking = NoCall
  /\ rep_ = NoBuilder
  /\ sstable = NoTable

Next ==
  \/ \E key \in UserKeys, value \in Payloads : Put(key, value)
  \/ \E key \in UserKeys : Delete(key)
  \/ FlushMemTable
  \/ \E skey \in QueryKeys, snapshot \in 1..MaxSeq, k \in 1..MaxTopK :
       snapshot <= last_sequence /\ SGet(skey, snapshot, k)
  \/ \E low \in QueryKeys, high \in QueryKeys,
        snapshot \in 1..MaxSeq, k \in 1..MaxTopK :
       /\ snapshot <= last_sequence
       /\ StrLeq(low, high)
       /\ SRangeGet(low, high, snapshot, k)
  \/ Return

Spec == Init /\ [][Next]_vars

\* the bounds of the calls of the range lookup: "2", "3", "4", "5"
RangeBounds == { << 50 >>, << 51 >>, << 52 >>, << 53 >> }

\* the write buffer and calls of its range lookup with any pair of bounds
NextRange ==
  \/ \E key \in UserKeys, value \in Payloads : ~ub /\ Put(key, value)
  \/ \E key \in UserKeys : ~ub /\ Delete(key)
  \/ \E start_skey \in RangeBounds, end_skey \in RangeBounds,
        snapshot \in 1..MaxSeq, k \in 1..MaxTopK, wraps \in BOOLEAN :
       snapshot <= last_sequence
         /\ RangeGet(start_skey, end_skey, snapshot, k, wraps)
  \/ ~ub /\ Return

SpecRange == Init /\ [][NextRange]_vars

\* the write buffer is filled, then a builder with a filter policy is
\* handed entries of the skiplist in the order of their internal keys
NextSecondary ==
  \/ \E key \in UserKeys, value \in Payloads :
       rep_ = NoBuilder /\ Put(key, value)
  \/ \E key \in UserKeys : rep_ = NoBuilder /\ Delete(key)
  \/ NewTableBuilder(TRUE, secondary_attribute_, <<>>, 2, FALSE)
  \/ \E e \in table_ : TableBuilderAdd(e)
  \/ TableBuilderFinish

SpecSecondary == Init /\ [][NextSecondary]_vars

\* the end points of the intervals operator* is applied to: "", "1",
\* "12", "2", "3"; an interval may have its low above its high
EndPoints == { <<>>, << 49 >>, << 49, 50 >>, << 50 >>, << 51 >> }

Operands == [low : EndPoints, high : EndPoints]

\* a caller applies operator* to two intervals: query is the call, out
\* holds the result
Intersect(a, b) ==
  /\ query = NoQuery
  /\ query' = [op |-> "operator*", a |-> a, b |-> b]
  /\ out' = << Overlaps(a, b) >>
  /\ UNCHANGED << lockVars, linking, fileVars, memVars, acc, result_set,
                  treeVars >>

NextIntersect ==
  \/ \E a \in Operands, b \in Operands : Intersect(a, b)
  \/ Return

SpecIntersect == Init /\ [][NextIntersect]_vars

\* the intervals of a tree of up to six nodes: the ids "a" .. "f" with
\* the lows "1", "2", "3", "3", "4", "5"
BalanceIntervals ==
  { << << 97 >>, << 49 >>, << 49 >>, 1 >>,
    << << 98 >>, << 50 >>, << 51 >>, 2 >>,
    << << 99 >>, << 51 >>, << 51 >>, 3 >>,
    << << 100 >>, << 51 >>, << 52 >>, 1 >>,
    << << 101 >>, << 52 >>, << 52 >>, 2 >>,
    << << 102 >>, << 53 >>, << 53 >>, 3 >> }

\* inserts and deletes that rebalance the tree
NextBalance ==
  \/ \E v \in BalanceIntervals :
       InsertInterval(v[1], v[2], v[3], v[4], FALSE)
  \/ \E v \in BalanceIntervals : DeleteInterval(v[1], FALSE)
  \/ \E threshold \in SyncThresholds : SetSyncThreshold(threshold)

SpecBalance == Init /\ [][NextBalance]_vars

\* a writer thread and a reader thread on the write buffer
NextWrite ==
  \/ \E key \in UserKeys, value \in Payloads :
       WriteBegin(kTypeValue, key, value)
  \/ \E key \in UserKeys : WriteBegin(kTypeDeletion, key, EmptyValue)
  \/ WriteEnd
  \/ mutex_ = Nobody /\ FlushMemTable
  \/ ReadBegin
  \/ \E skey \in QueryKeys, k \in 1..MaxTopK :
       /\ mutex_ = "reader"
       /\ last_sequence > 0
       /\ SGet(skey, last_sequence, k)
  \/ ReadEnd
  \/ mutex_ = Nobody /\ Return

SpecWrite == Init /\ [][NextWrite]_vars

\* one SSTable is built
NextBuilder ==
  \/ \E filter_policy \in BOOLEAN, secondary_key \in SecondaryKeys,
        interval_tree_file_name \in IntervalTreeFileNames,
        block_size \in BlockSizes :
       \E interval_tree \in BOOLEAN :
         NewTableBuilder(filter_policy, secondary_key,
                         interval_tree_file_name, block_size, interval_tree)
  \/ \E e \in BuilderEntries : TableBuilderAdd(e)
  \/ Flush
  \/ TableBuilderFinish

SpecBuilder == Init /\ [][NextBuilder]_vars

\* one SSTable is built in interval-block mode, opened and queried
NextTable ==
  \/ \E filter_policy \in BOOLEAN, block_size \in BlockSizes :
       NewTableBuilder(filter_policy, secondary_attribute_, <<>>, block_size,
                       TRUE)
  \/ \E e \in BuilderEntries : TableBuilderAdd(e)
  \/ TableBuilderFinish
  \/ \E index_ok \in BOOLEAN, interval_ok \in BOOLEAN,
        meta_ok \in BOOLEAN, filter_ok \in BOOLEAN :
       TableOpen(index_ok, interval_ok, meta_ok, filter_ok)
  \/ \E skey \in QueryKeys, snapshot \in 1..MaxSeq, k \in 1..MaxTopK,
        false_positive \in BOOLEAN :
       TableGet(skey, snapshot, k, false_positive)
  \/ \E low \in QueryKeys, high \in QueryKeys,
        snapshot \in 1..MaxSeq, k \in 1..MaxTopK :
       StrLeq(low, high) /\ TableRangeGet(low, high, snapshot, k)
  \/ Return

SpecTable == Init /\ [][NextTable]_vars

\* the extractor applied to documents
NextExtract ==
  \/ \E json_data \in ExtractDocs, key \in ExtractAttributes :
       ExtractKey(json_data, key)
  \/ Return

SpecExtract == Init /\ [][NextExtract]_vars

\* the tree under insertions, deletions, checkpoints and topK
NextTree ==
  \/ \E v \in StoredIntervals :
       InsertInterval(v[1], v[2], v[3], v[4], FALSE)
  \/ \E id \in IntervalIds : DeleteInterval(id, FALSE)
  \/ \E id_prefix \in Prefixes : DeleteAllIntervals(id_prefix, FALSE)
  \/ Sync
  \/ \E threshold \in SyncThresholds : SetSyncThreshold(threshold)
  \/ \E r \in Ranges : TopK(r[1], r[2])
  \/ TopKReturn

SpecTree == Init /\ [][NextTree]_vars

\* no walk has started on another tree than the present one: the callers
\* change the tree at most once under a walk that was not cancelled
WalksCurrent ==
  \A i \in Iterators :
    its[i].started_on # NoIterator.started_on => its[i].started_on = tree

\* the tree under insertions, deletions and the walk of one iterator
NextIter ==
  \/ \E w \in WalkIntervals, freed \in BOOLEAN :
       WalksCurrent /\ InsertInterval(w[1], w[2], w[3], w[4], freed)
  \/ \E id \in IntervalIds, freed \in BOOLEAN :
       WalksCurrent /\ DeleteInterval(id, freed)
  \/ \E threshold \in SyncThresholds : SetSyncThreshold(threshold)
  \/ \E i \in Walkers, garbage \in BOOLEAN :
       \E r \in WalkRanges[i] : IterConstruct(i, r[1], r[2], garbage)
  \/ \E i \in Walkers : IterDestruct(i)
  \/ \E i \in Walkers : IterNext(i)
  \/ \E i \in Walkers, release \in BOOLEAN : IterStop(i, release)
  \/ \E i \in Walkers :
       \E r \in WalkRanges[i] : IterRestart(i, r[1], r[2])

SpecIter == Init /\ [][NextIter]_vars

\* the tree under insertions, deletions and two iterators that both ask
\* for it
NextHold ==
  \/ \E w \in HoldIntervals, freed \in BOOLEAN :
       WalksCurrent /\ InsertInterval(w[1], w[2], w[3], w[4], freed)
  \/ \E w \in HoldIntervals, freed \in BOOLEAN :
       WalksCurrent /\ DeleteInterval(w[1], freed)
  \/ \E id_prefix \in Prefixes, freed \in BOOLEAN :
       WalksCurrent /\ DeleteAllIntervals(id_prefix, freed)
  \/ \E i \in Iterators, garbage \in BOOLEAN :
       \E r \in WalkRanges[i] : IterConstruct(i, r[1], r[2], garbage)
  \/ \E i \in Iterators : IterDestruct(i)
  \/ \E i \in Iterators : IterNext(i)
  \/ \E i \in Iterators, release \in BOOLEAN : IterStop(i, release)
  \/ \E i \in Iterators :
       \E r \in WalkRanges[i] : IterRestart(i, r[1], r[2])

SpecHold == Init /\ [][NextHold]_vars

\* the tree under the ids of IdIntervals, checkpoints and reconstruction
NextIds ==
  \/ \E v \in IdIntervals :
       /\ Cardinality(DOMAIN tree.n) <= MaxNodes
       /\ InsertInterval(v[1], v[2], v[3], v[4], FALSE)
  \/ \E v \in IdIntervals : DeleteInterval(v[1], FALSE)
  \/ \E id_prefix \in Prefixes : DeleteAllIntervals(id_prefix, FALSE)
  \/ \E threshold \in IdSyncThresholds : SetSyncThreshold(threshold)
  \/ \E held \in SUBSET Written :
       \E l \in Orders(held), crashed \in BOOLEAN : Reopen(l, crashed)
  \/ TopK(<< 49 >>, << 52 >>)
  \/ TopKReturn

SpecIds == Init /\ [][NextIds]_vars

\* the tree called by two threads: one inserts, the other deletes and
\* asks topK
NextThreads ==
  \/ \E w \in WalkIntervals, indeterminate \in Indeterminate :
       InsertBegin(w[1], w[2], w[3], w[4], indeterminate)
  \/ InsertEnd
  \/ \E id \in IntervalIds :
       /\ IF linking = NoCall THEN TRUE ELSE id # linking.id
       /\ DeleteInterval(id, FALSE)
  \/ \E id \in IntervalIds : RacingDelete(id)
  \/ \E threshold \in SyncThresholds : SetSyncThreshold(threshold)
  \/ \E r \in Ranges : TopK(r[1], r[2])
  \/ TopKReturn

SpecThreads == Init /\ [][NextThreads]_vars

\* ===================================================== the write buffer
\* what a lookup of the write buffer ought to see

SequenceOf(tag) == tag \div 256

\* the newest entry of key in the write buffer with sequence <= snapshot
HasVisible(key, snapshot) ==
  \E e \in table_ : e.key = key /\ e.seq <= snapshot

NewestVisible(key, snapshot) ==
  CHOOSE e \in table_ :
    /\ e.key = key /\ e.seq <= snapshot
    /\ \A f \in table_ : (f.key = key /\ f.seq <= snapshot) => f.seq <= e.seq

SecondaryOf(e) == ExtractKeyFromJSON(e.value, secondary_attribute_)

\* key is live at the snapshot and its current secondary value matches q
LiveMatch(key, q) ==
  /\ HasVisible(key, q.snapshot)
  /\ LET e == NewestVisible(key, q.snapshot)
     IN /\ e.type = kTypeValue
        /\ SecondaryOf(e).st = Status_OK
        /\ Matches(q, SecondaryOf(e).key_attr)

LiveMatches(q) ==
  { [key |-> key, seq |-> NewestVisible(key, q.snapshot).seq] :
      key \in { k \in UserKeys : LiveMatch(k, q) } }

\* the n members of S with the highest sequence numbers
Newest(S, n) == { e \in S : Cardinality({ f \in S : f.seq > e.seq }) < n }

HeapEntries(heap) ==
  { [key |-> heap[i].key, seq |-> SequenceOf(heap[i].sequence_number)] :
      i \in 1..Len(heap) }

Answered == query # NoQuery

\* C1: after any sequence of writes, a lookup of the write buffer at the
\* newest snapshot returns exactly the min(K, m) highest-sequence live
\* records whose current secondary value matches the query.
C1_TopKSemantics ==
  (Answered /\ query.snapshot = last_sequence)
    => HeapEntries(acc) = Newest(LiveMatches(query), query.k)

StoreEntries ==
  table_ \cup UNION { { tables[t][i] : i \in 1..Len(tables[t]) } :
                        t \in 1..Len(tables) }

MatchingVersions(key, q) ==
  { e \in StoreEntries :
      /\ e.key = key /\ e.seq <= q.snapshot /\ e.type = kTypeValue
      /\ SecondaryOf(e).st = Status_OK
      /\ Matches(q, SecondaryOf(e).key_attr) }

\* C3: no primary key appears twice in the returned list, and of several
\* matching versions of a key only the one with the highest sequence
\* number is returned.
C3_DeDuplication ==
  Answered =>
    /\ \A i \in 1..Len(out) : \A j \in 1..Len(out) :
         i # j => out[i].key # out[j].key
    /\ \A i \in 1..Len(out) :
         \A e \in MatchingVersions(out[i].key, query) :
           e.seq <= SequenceOf(out[i].sequence_number)

\* a version of key older than its newest one held another secondary value
\* than sec, and the newest one, a Value, holds sec
Overwritten(key, sec, snapshot) ==
  /\ HasVisible(key, snapshot)
  /\ LET e == NewestVisible(key, snapshot)
     IN /\ e.type = kTypeValue
        /\ SecondaryOf(e).st = Status_OK /\ SecondaryOf(e).key_attr = sec
        /\ \E f \in table_ :
             /\ f.key = key /\ f.seq < e.seq /\ f.type = kTypeValue
             /\ SecondaryOf(f).st = Status_OK /\ SecondaryOf(f).key_attr # sec

\* C4: for every entry sget(skey) returns from the write buffer, the newest
\* version of its key visible at the snapshot is a Value whose secondary
\* value equals skey; a key overwritten from A to B is absent from sget(A),
\* and sget(B) holds it once with the later sequence number.
C4_SMTConsistency ==
  (Answered /\ query.op = "get" /\ tables = <<>>) =>
    /\ \A i \in 1..Len(out) :
         /\ HasVisible(out[i].key, query.snapshot)
         /\ LET e == NewestVisible(out[i].key, query.snapshot)
            IN /\ e.type = kTypeValue
               /\ SecondaryOf(e).st = Status_OK
               /\ SecondaryOf(e).key_attr = query.low
    /\ \A key \in UserKeys :
         (/\ Overwritten(key, query.low, query.snapshot)
          /\ Cardinality(LiveMatches(query)) <= query.k)
           => Cardinality({ i \in 1..Len(out) :
                  /\ out[i].key = key
                  /\ SequenceOf(out[i].sequence_number)
                       = NewestVisible(key, query.snapshot).seq }) = 1

\* C5: a lookup with snapshot S returns exactly the matching records with
\* sequence <= S: no record written after S appears, and no record written
\* after S keeps an older matching record out of the result.
C5_SnapshotVisibility ==
  Answered =>
    /\ \A i \in 1..Len(acc) : SequenceOf(acc[i].sequence_number) <= query.snapshot
    /\ Cardinality(LiveMatches(query)) <= query.k
         => HeapEntries(acc) = LiveMatches(query)

\* C6: a key whose newest version is a Deletion is never returned, and the
\* Deletion hides no other matching key.
Deleted(key) ==
  /\ HasVisible(key, last_sequence)
  /\ NewestVisible(key, last_sequence).type = kTypeDeletion

C6_DeletionHidesOnlyItsKey ==
  (Answered /\ query.snapshot = last_sequence) =>
    /\ \A i \in 1..Len(acc) : ~Deleted(acc[i].key)
    /\ ((\E key \in UserKeys : Deleted(key))
         /\ Cardinality(LiveMatches(query)) <= query.k)
         => LiveMatches(query) \subseteq HeapEntries(acc)

\* ====================================================== the interval tree
\* the nodes of the tree and the intervals it stores
TreeNodes == DOMAIN tree.n \ { NIL }
StoredSet == { tree.n[x].interval : x \in TreeNodes }

\* the larger of two strings, and of two numbers, as the claims state them
StrMax(S) == CHOOSE a \in S : \A b \in S : StrLeq(b, a)
IntMax(S) == CHOOSE a \in S : \A b \in S : b <= a
Children(x) == { tree.n[x].left, tree.n[x].right } \ { NIL }

\* C7: after every insertInterval, deleteInterval and deleteAllIntervals,
\* every node x has max_high = the largest of its interval's high and the
\* max_high of its non-nil children, and max_timestamp = the largest of its
\* interval's timestamp and the max_timestamp of its non-nil children.
C7_Augmentation ==
  \A x \in TreeNodes :
    /\ tree.n[x].max_high =
         StrMax({ tree.n[x].interval.high }
                  \cup { tree.n[c].max_high : c \in Children(x) })
    /\ tree.n[x].max_timestamp =
         IntMax({ tree.n[x].interval.timestamp }
                  \cup { tree.n[c].max_timestamp : c \in Children(x) })

\* [low, high] and the interval share a point
Intersects(iv, low, high) == StrLeq(iv.low, high) /\ StrLeq(low, iv.high)

Descending(v) ==
  \A i, j \in 1..Len(v) : i < j => v[i].timestamp >= v[j].timestamp
EachOnce(v) == \A i, j \in 1..Len(v) : i # j => v[i] # v[j]
Range(v) == { v[i] : i \in 1..Len(v) }

\* C8: topK called with an empty vector returns exactly the stored intervals
\* that intersect [minKey, maxKey] (a shared end point counts), each once,
\* by timestamp descending.
C8_TopKExact ==
  topk_call # NoCall =>
    /\ Range(topk_out) =
         { iv \in StoredSet : Intersects(iv, topk_call.minKey, topk_call.maxKey) }
    /\ EachOnce(topk_out)
    /\ Descending(topk_out)

\* a walk of iterator i that started on the present tree
Walking(i) ==
  /\ its[i].alive
  /\ its[i].iterator_in_use
  /\ its[i].started_on = tree

\* C9: on a tree that is not changed during the walk, the calls of next()
\* yield stored intervals that intersect the range, each once, timestamps
\* never increasing, and when next() returns false every such interval has
\* been yielded: the same intervals topK returns for the range.
C9_LazyWalk ==
  \A i \in Iterators :
    Walking(i) =>
      LET q == its[i].search_int
          all == { iv \in StoredSet : Intersects(iv, q.low, q.high) }
      IN /\ Range(its[i].yielded) \subseteq all
         /\ EachOnce(its[i].yielded)
         /\ Descending(its[i].yielded)
         /\ its[i].last = "false" =>
              /\ Range(its[i].yielded) = all
              /\ Range(its[i].yielded) = Range(topK(tree, <<>>, q.low, q.high))

\* an iterator that holds nodes it has still to visit
Live(i) == its[i].alive /\ its[i].iterator_in_use /\ its[i].nodes # {}

\* C10: at any time at most one TopKIterator is live on the tree.
C10_SingleHolder ==
  Cardinality({ i \in Iterators : Live(i) }) <= 1

\* the call next() on iterator it over tree T hands out an interval
Yields(T, it) ==
  LET r == IteratorNext(T, it)
  IN ~r.dangling /\ Len(r.it.yielded) > Len(it.yielded)

\* this step constructs iterator j
Constructs(j) == ~its[j].alive /\ its'[j].alive

\* C11: constructing a second iterator while one is live aborts the first:
\* after the construction a call of next() on the first one yields nothing.
C11_SecondAbortsFirst ==
  [][\A i, j \in Iterators :
       (i # j /\ Live(i) /\ Constructs(j)) => ~Yields(tree', its'[i])]_vars

\* C12: a mutation that changes the tree while an iterator is live leaves
\* that iterator with no pending node and no explored node and the tree
\* with no registered iterator, and no call of next() ever reaches a node
\* that was removed from the tree.
C12_MutationCancels ==
  [][/\ tree' # tree =>
          \A i \in Iterators :
            Live(i) => /\ its'[i].nodes = {}
                       /\ its'[i].explored = {}
                       /\ ~iterator_in_use'
                       /\ iterator' = NULLPTR
     /\ ~ub']_vars

\* what next() returns to its caller on iterator it over tree T
Returned(T, it) == IteratorNext(T, it).it.last

\* C13: when a mutation cancels a live iterator, the next call of next()
\* tells the caller so: it returns something else than the "false" of a
\* walk that ran out of intervals; and a new start on the changed tree
\* succeeds when the tree holds an interval.
C13_QueryInterrupted ==
  [][\A i \in Iterators :
       (Live(i) /\ tree' # tree /\ ~Live(i)') =>
          /\ Returned(tree', its'[i]) # "false"
          /\ tree'.root # NIL =>
               IteratorStart(Object', i, its[i].search_int.low,
                             its[i].search_int.high).ok]_vars

\* the nodes of the tree that hold an interval with this id
NodesOf(T, id) == { x \in DOMAIN T.n \ { NIL } : T.n[x].interval.id = id }

\* this step is insertInterval with these arguments
Inserts(v) == InsertInterval(v[1], v[2], v[3], v[4], FALSE)

\* C14: the tree never holds two nodes with the same id, and after
\* insertInterval(id, low, high, ts) exactly one node has that id and it
\* carries the given low, high and timestamp.
C14_IdUnique ==
  [][/\ \A x, y \in DOMAIN tree'.n \ { NIL } :
          tree'.n[x].interval.id = tree'.n[y].interval.id => x = y
     /\ \A v \in IdIntervals :
          Inserts(v) =>
            \E x \in NodesOf(tree', v[1]) :
              /\ NodesOf(tree', v[1]) = { x }
              /\ tree'.n[x].interval =
                   [id |-> v[1], low |-> v[2], high |-> v[3],
                    timestamp |-> v[4]]]_vars

\* id is id_prefix, or id_prefix, the delimiter and a suffix
HasPrefix(id, id_prefix) ==
  \/ id = id_prefix
  \/ /\ Len(id) > Len(id_prefix)
     /\ SubSeq(id, 1, Len(id_prefix) + 1) = id_prefix \o << id_delim >>

\* this step is deleteAllIntervals(id_prefix)
DeletesAll(id_prefix) == DeleteAllIntervals(id_prefix, FALSE)

\* C15: deleteAllIntervals(id_prefix) removes every stored interval whose id
\* is id_prefix or id_prefix + delimiter + suffix and no other interval, and
\* topK returns no interval of that prefix afterwards.
C15_DeleteAll ==
  [][\A id_prefix \in Prefixes :
       DeletesAll(id_prefix) =>
         LET before == { tree.n[x].interval : x \in DOMAIN tree.n \ { NIL } }
             after == { tree'.n[x].interval : x \in DOMAIN tree'.n \ { NIL } }
         IN /\ after = { iv \in before : ~HasPrefix(iv.id, id_prefix) }
            /\ \A iv \in Range(topK(tree', <<>>, << 49 >>, << 52 >>)) :
                 ~HasPrefix(iv.id, id_prefix)]_vars

\* C16: counting the mutations since the last checkpoint, the
\* sync_threshold-th one writes the checkpoint and resets the counter to 0.
C16_Cadence ==
  [][(/\ storage' # storage
      /\ sync_threshold >= 1
      /\ sync_counter + 1 = sync_threshold)
     => /\ sync_counter' = 0
        /\ sync_file_data' =
             { tree'.n[storage'[id]].interval : id \in DOMAIN storage' }]_vars

\* C17: a tree constructed from the file that sync() wrote holds exactly
\* the intervals the tree held when it was written.
C17_RoundTrip ==
  [][\A held \in SUBSET Written :
       \A l \in Orders(held), crashed \in BOOLEAN :
         Reopen(l, crashed) => (~ub' /\ StoredSet' = StoredSet)]_vars

\* this step starts a topK or a deleteInterval, or runs into a node that is
\* not linked
OtherCall ==
  \/ topk_call = NoCall /\ topk_call' # NoCall
  \/ DOMAIN storage' # DOMAIN storage
  \/ ub'

\* C18: the calls of the tree exclude each other: while an insertInterval
\* is between recording its node and linking it, no topK and no
\* deleteInterval of another thread takes a step.
C18_MutualExclusion ==
  [][(linking # NoCall /\ linking' = linking) => ~OtherCall]_vars

\* how often the inverted list of sk names key
Occurrences(smt, sk, key) ==
  IF sk \in DOMAIN smt
    THEN Cardinality({ i \in 1..Len(smt[sk]) : smt[sk][i] = key })
    ELSE 0

\* the Value records of key in the skiplist whose payload yields sk
Records(tbl, sk, key) ==
  Cardinality({ e \in tbl :
    /\ e.key = key
    /\ e.type = kTypeValue
    /\ ExtractKeyFromJSON(e.value, secondary_attribute_).st = Status_OK
    /\ ExtractKeyFromJSON(e.value, secondary_attribute_).key_attr = sk })

SecondaryValues ==
  DOMAIN secondary_table_ \cup
  { ExtractKeyFromJSON(e.value, secondary_attribute_).key_attr : e \in
      { x \in table_ :
          ExtractKeyFromJSON(x.value, secondary_attribute_).st = Status_OK } }

SecValuesOf(block, attr) ==
  { ExtractKeyFromJSON(block[i].value, attr).key_attr : i \in
      { j \in 1..Len(block) :
          /\ block[j].type = kTypeValue
          /\ ExtractKeyFromJSON(block[j].value, attr).st = Status_OK } }

MinOf(S) == CHOOSE x \in S : \A y \in S : StrLeq(x, y)
MaxOf(S) == CHOOSE x \in S : \A y \in S : StrLeq(y, x)

\* a finished SSTable in interval-block mode
BuiltWithIntervalBlock ==
  /\ rep_ # NoBuilder
  /\ rep_.closed
  /\ rep_.interval_tree_file_name = <<>>

\* C20: in a finished SSTable built in interval-block mode, with or without
\* a filter policy, the interval block has one entry per data block, and
\* the i-th entry holds the smallest and the largest secondary value of the
\* records of the i-th data block, the empty string included.
C20_IntervalBlockRoundTrip ==
  BuiltWithIntervalBlock =>
    /\ Len(rep_.interval_block) = Len(rep_.blocks)
    /\ \A i \in 1..Len(rep_.blocks) :
         SecValuesOf(rep_.blocks[i], rep_.secondary_key) # {} =>
           rep_.interval_block[i] =
             << MinOf(SecValuesOf(rep_.blocks[i], rep_.secondary_key)),
                MaxOf(SecValuesOf(rep_.blocks[i], rep_.secondary_key)) >>

\* the largest sequence number of the entries of a data block
MaxSeqOf(block) ==
  CHOOSE s \in { block[i].seq : i \in 1..Len(block) } :
    \A i \in 1..Len(block) : block[i].seq <= s

\* the builder, in tree mode, has handed the interval of a block to the tree
EmittedToTree ==
  /\ rep_ # NoBuilder
  /\ rep_.interval_tree_
  /\ rep_.interval_tree_file_name # <<>>
  /\ rep_.index_block # <<>>

\* the id of the block the builder emitted last
LastBlockId ==
  DecimalString(file_number_) \o << 43 >>
    \o rep_.index_block[Len(rep_.index_block)].key

\* C21: the timestamp of the interval the builder stored last in the tree
\* is the largest sequence number of the entries of that block, Deletions
\* and entries without a secondary value included.
C21_BlockMaxSeq ==
  EmittedToTree =>
    /\ LastBlockId \in DOMAIN storage
    /\ tree.n[storage[LastBlockId]].interval.timestamp =
         MaxSeqOf(rep_.blocks[Len(rep_.index_block)])

\* the secondary values of all the records of the SSTable
TableSecValues ==
  UNION { SecValuesOf(rep_.blocks[i], rep_.secondary_key) :
            i \in 1..Len(rep_.blocks) }

\* C22: after Finish, smallest_sec is the smallest and largest_sec the
\* largest secondary value of the records of the SSTable, however many
\* blocks it has and in whatever order their ranges come.
C22_TableRange ==
  (rep_ # NoBuilder /\ rep_.closed /\ TableSecValues # {}) =>
    /\ rep_.smallest_sec = MinOf(TableSecValues)
    /\ rep_.largest_sec = MaxOf(TableSecValues)

\* the entries of the data blocks of the builder, written or not
RECURSIVE Flatten(_)
Flatten(blocks) ==
  IF blocks = <<>> THEN <<>> ELSE Head(blocks) \o Flatten(Tail(blocks))

DataEntries == Flatten(rep_.blocks) \o rep_.data_block

\* C23: secondary indexing loses no primary data: every entry handed to
\* TableBuilder::Add is in a data block and counted in num_entries, whether
\* or not a secondary value can be extracted from it, with an empty
\* secondary_key too, with or without a filter policy.
C23_NoRecordLost ==
  rep_ # NoBuilder =>
    /\ DataEntries = rep_.handed
    /\ rep_.num_entries = Len(rep_.handed)

\* C24: with an empty secondary_key the builder adds nothing to a secondary
\* structure: the secondary filter block, the interval block and the
\* interval tree stay empty.
C24_EmptyKeyDisables ==
  (rep_ # NoBuilder /\ rep_.secondary_key = "") =>
    /\ rep_.secondary_filter_block = {}
    /\ rep_.interval_block = <<>>
    /\ DOMAIN storage = {}

\* the builder r after Add of entries[i], entries[i+1], ... and Finish
RECURSIVE Build(_, _, _)
Build(r, entries, i) ==
  IF i > Len(entries) THEN Finished(TableBuilderFlush(r))
  ELSE Build(AddEntry(Emitted(r), entries[i],
                      ExtractKeyFromJSON(entries[i].value, r.secondary_key)),
             entries, i + 1)

\* the table of the same Add calls under a filter policy, opened intact
WithFilterPolicy ==
  OpenedTable(Build(NewRep(TRUE, rep_.secondary_key,
                           rep_.interval_tree_file_name, rep_.block_size,
                           rep_.interval_tree_),
                    rep_.handed, 1),
              TRUE, TRUE)

\* a table built without a filter policy has answered a query
AnsweredWithoutPolicy ==
  /\ Readable
  /\ ~rep_.filter_policy
  /\ query # NoQuery

\* C25: a table built without a filter policy has the interval block of
\* the table built from the same records with one, and answers a range
\* query as that table does and a point query as that table may.
C25_SameWithoutPolicy ==
  AnsweredWithoutPolicy =>
    /\ sstable.interval_block = WithFilterPolicy.interval_block
    /\ query.op = "range" =>
         out = SortNewestFirst(
                 RangeResult(WithFilterPolicy, query.low, query.high,
                             query.snapshot, query.k).acc)
    /\ query.op = "get" =>
         \E false_positive \in BOOLEAN :
           out = SortNewestFirst(
                   PointResult(WithFilterPolicy, query.low, query.snapshot,
                               query.k, false_positive).acc)

\* the table T answers every query as the table of the same file opened
\* with all its blocks intact does
AnswersAsIntact(T) ==
  /\ \A skey \in QueryKeys, snapshot \in 1..MaxSeq, k \in 1..MaxTopK :
       \E false_positive \in BOOLEAN :
         PointResult(T, skey, snapshot, k, TRUE) =
           PointResult(OpenedTable(rep_, TRUE, TRUE), skey, snapshot, k,
                       false_positive)
  /\ \A low \in QueryKeys, high \in QueryKeys,
        snapshot \in 1..MaxSeq, k \in 1..MaxTopK :
       RangeResult(T, low, high, snapshot, k) =
         RangeResult(OpenedTable(rep_, TRUE, TRUE), low, high, snapshot, k)

\* C26: an interval block or a secondary filter block that cannot be read
\* is no error: when the index block is readable, Table::Open gives a
\* table with status OK, and that table answers every secondary query as
\* the table with intact blocks does.
C26_CorruptionRecoverable ==
  [][\A interval_ok \in BOOLEAN, meta_ok \in BOOLEAN, filter_ok \in BOOLEAN :
       TableOpen(TRUE, interval_ok, meta_ok, filter_ok) =>
         /\ sstable'.status = Status_OK
         /\ AnswersAsIntact(sstable')]_vars

\* the number a string of decimal digits denotes
RECURSIVE DecimalValue(_)
DecimalValue(digits) ==
  IF digits = <<>> THEN 0
  ELSE 10 * DecimalValue(SubSeq(digits, 1, Len(digits) - 1))
         + (digits[Len(digits)] - 48)

\* digits is the base-10 rendering of the natural number n
RendersNatural(digits, n) ==
  /\ Len(digits) >= 1
  /\ \A i \in 1..Len(digits) : digits[i] \in 48..57
  /\ Len(digits) > 1 => digits[1] # 48
  /\ DecimalValue(digits) = n

\* str is the rendering of the JSON value the spec asks for
Renders(str, value) ==
  CASE value.t = "uint" -> RendersNatural(str, value.v)
    [] value.t = "int" ->
         IF value.v < 0
           THEN /\ Len(str) >= 2
                /\ str[1] = 45
                /\ RendersNatural(Tail(str), 0 - value.v)
           ELSE RendersNatural(str, value.v)
    [] value.t = "bool" ->
         str = IF value.v THEN << 116, 114, 117, 101 >>
                          ELSE << 102, 97, 108, 115, 101 >>
    [] value.t = "string" -> str = value.v
    [] OTHER -> FALSE

\* the cases in which the extractor has to fail
MustFail(json_data, key) ==
  \/ key = ""
  \/ ~json_data.isObject
  \/ key \notin DOMAIN json_data.members
  \/ json_data.members[key].t \in { "null", "array", "object" }

\* C27: ExtractKeyFromJSON fails with InvalidArgument exactly when the
\* attribute name is empty, the payload is no object, or the attribute is
\* absent, null, an array or an object; otherwise it is OK with integers in
\* base 10, booleans as "true" or "false", strings verbatim.
C27_Extractor ==
  (query # NoQuery /\ query.op = "extract") =>
    IF MustFail(query.json_data, query.key)
      THEN out.st = Status_InvalidArgument
      ELSE /\ out.st = Status_OK
           /\ Renders(out.key_attr, query.json_data.members[query.key])

\* the primary keys of the entries of a heap
HeapKeys(heap) == { heap[i].key : i \in 1..Len(heap) }

\* C28: the point lookup of the write buffer examines the whole inverted
\* list: when the heap is not full, every key of the list of skey that is
\* live at the snapshot with skey as its current secondary value is in
\* the heap, whatever entries stand behind it in the list.
C28_WholeList ==
  (Answered /\ query.op = "get" /\ Len(acc) < query.k
     /\ query.low \in DOMAIN secondary_table_) =>
    \A i \in 1..Len(secondary_table_[query.low]) :
      LiveMatch(secondary_table_[query.low][i], query) =>
        secondary_table_[query.low][i] \in HeapKeys(acc)

\* the tag of the newest version of key visible at the snapshot of q
TagOf(key, q) ==
  NewestVisible(key, q.snapshot).seq * 256 + NewestVisible(key, q.snapshot).type

\* C29: after a point lookup of the write buffer, seen is the set of the
\* primary keys of the heap and the heap holds at most K entries; and a
\* matching candidate of the list that is not in the heap was not admitted
\* because its sequence number does not exceed the heap minimum's.
C29_Admission ==
  (Answered /\ query.op = "get") =>
    /\ result_set = HeapKeys(acc)
    /\ Len(acc) <= query.k
    /\ (Len(acc) = query.k /\ query.low \in DOMAIN secondary_table_) =>
         \A i \in 1..Len(secondary_table_[query.low]) :
           ( /\ LiveMatch(secondary_table_[query.low][i], query)
             /\ secondary_table_[query.low][i] \notin HeapKeys(acc) ) =>
             TagOf(secondary_table_[query.low][i], query)
               <= Front(acc).sequence_number

\* the buckets of the write buffer with a key between the bounds of q, in
\* ascending order
BucketsBetween(q) ==
  SortedStrings({ k \in DOMAIN secondary_table_ :
                    StrLeq(q.low, k) /\ StrLeq(k, q.high) })

\* C30: a range lookup of the write buffer returns having entered exactly
\* the buckets whose key lies between the bounds, both inclusive, in
\* ascending order; with low above high it enters none and the heap is
\* as it was.
C30_RangeVisits ==
  (Answered /\ query.op = "RangeGet") =>
    /\ ~ub
    /\ query.visited = BucketsBetween(query)
    /\ StrLess(query.high, query.low) => acc = EmptyHeap.acc


\* the data blocks of the opened table with a record whose secondary
\* value lies between low and high
BlocksWithin(low, high) ==
  { i \in 1..Len(sstable.blocks) :
      \E v \in SecValuesOf(sstable.blocks[i], secondary_attribute_) :
        StrLeq(low, v) /\ StrLeq(v, high) }

\* C31: a lookup in a table with an interval block opens every data block
\* that holds a record with a secondary value equal to the key of a point
\* query, unless the secondary filter rejects it, and every data block that
\* holds a record with a secondary value within the bounds of a range query.
C31_PruningSound ==
  (Readable /\ Answered) =>
    \A i \in BlocksWithin(query.low, query.high) :
      IF query.op = "get"
        THEN ~PointSkips(sstable, IntervalAt(sstable, i), query.low,
                         << query.low, query.snapshot, kTypeValue >>, TRUE)
        ELSE ~RangeSkips(IntervalAt(sstable, i), query.low, query.high)


\* the number of data blocks that have their index entry
Indexed == Len(rep_.blocks) - (IF rep_.pending_index_entry THEN 1 ELSE 0)

\* C32: every data block of the file has one range record, emitted with
\* its index entry: in tree mode the interval stored under the file number
\* and the last user key of the block, otherwise the entry of the interval
\* block at the position of the index entry; and the accumulators are
\* empty when no block is being filled or awaits its index entry.
C32_OneRangePerBlock ==
  rep_ # NoBuilder =>
    /\ Len(rep_.index_block) = Indexed
    /\ IF rep_.interval_tree_file_name = <<>>
         THEN Len(rep_.interval_block) = Len(rep_.index_block)
         ELSE \A i \in 1..Len(rep_.index_block) :
                DecimalString(file_number_) \o << 43 >>
                  \o rep_.index_block[i].key \in DOMAIN storage
    /\ (rep_.data_block = <<>> /\ ~rep_.pending_index_entry) =>
         /\ rep_.min_sec_value = <<>>
         /\ rep_.max_sec_value = <<>>
         /\ rep_.max_sec_seq_number = 0


\* the intervals the builder has emitted: the entries of the interval block
\* and the intervals stored in the tree
EmittedIntervals ==
  { rep_.interval_block[i] : i \in 1..Len(rep_.interval_block) }
    \cup { << tree.n[storage[id]].interval.low,
              tree.n[storage[id]].interval.high >> : id \in DOMAIN storage }

\* C33: every interval the builder emitted, to the tree or to the interval
\* block, has low <= high, whatever the records of its block: without a
\* secondary value, or with the empty string as a value.
C33_LowLeqHigh ==
  rep_ # NoBuilder => \A iv \in EmittedIntervals : StrLeq(iv[1], iv[2])

\* the builder emitted at least two blocks: an interval has low < high, a
\* block holds the empty string as a value, and a block holds no secondary
\* value
C33_Witness ==
  /\ rep_ # NoBuilder
  /\ rep_.filter_policy
  /\ rep_.secondary_key = "age"
  /\ rep_.interval_tree_file_name # <<>> => DOMAIN storage # {}
  /\ Len(rep_.index_block) >= 2
  /\ \E iv \in EmittedIntervals : StrLess(iv[1], iv[2])
  /\ \E i \in 1..Len(rep_.index_block) :
       <<>> \in SecValuesOf(rep_.blocks[i], rep_.secondary_key)
  /\ \E i \in 1..Len(rep_.index_block) :
       SecValuesOf(rep_.blocks[i], rep_.secondary_key) = {}


\* the keys of the Value records of the skiplist with the sequence numbers
\* 1..s whose payload yields sk, in the order of the Add calls
RECURSIVE AddedKeys(_, _)
AddedKeys(sk, s) ==
  IF s = 0 THEN <<>>
  ELSE AddedKeys(sk, s - 1) \o
         (IF \E key \in UserKeys : Records({ e \in table_ : e.seq = s },
                                           sk, key) = 1
            THEN << (CHOOSE e \in table_ : e.seq = s).key >>
            ELSE <<>>)

\* C34: the inverted list of a secondary value is the sequence of the keys
\* of the Value records whose payload yields that value, in the order of
\* the Add calls; there is no list for another value; and the secondary
\* filter of a builder holds no key of a Deletion.
C34_SMTContents ==
  /\ \A sk \in SecondaryValues :
       IF AddedKeys(sk, last_sequence) = <<>>
         THEN sk \notin DOMAIN secondary_table_
         ELSE /\ sk \in DOMAIN secondary_table_
              /\ secondary_table_[sk] = AddedKeys(sk, last_sequence)
  /\ rep_ # NoBuilder =>
       \A k \in rep_.secondary_filter_block : k[3] # kTypeDeletion

\* a list holds two keys, the write buffer holds a Deletion, and a builder
\* was handed a Deletion and a record with a value
C34_Witness ==
  /\ \E sk \in DOMAIN secondary_table_ : Len(secondary_table_[sk]) = 2
  /\ \E e \in table_ : e.type = kTypeDeletion
  /\ rep_ # NoBuilder
  /\ \E i \in 1..Len(rep_.handed) : rep_.handed[i].type = kTypeDeletion
  /\ rep_.secondary_filter_block # {}


\* operator* was applied to two intervals with low <= high
Intersected ==
  /\ query.op = "operator*"
  /\ StrLeq(query.a.low, query.a.high)
  /\ StrLeq(query.b.low, query.b.high)

\* C35: for intervals a and b with low <= high, a*b is true exactly when
\* a.low <= b.high and b.low <= a.high, and b*a is the same; so two
\* intervals that share only an end point intersect.
C35_Intersection ==
  Intersected =>
    /\ out[1] = (StrLeq(query.a.low, query.b.high)
                   /\ StrLeq(query.b.low, query.a.high))
    /\ out[1] = Overlaps(query.b, query.a)
    /\ query.a.high = query.b.low => out[1]

\* operator* said that [a.low, a.high] and [a.high, b.high], which share
\* the point a.high only, intersect
C35_Witness ==
  /\ Intersected
  /\ StrLess(query.a.low, query.a.high)
  /\ query.a.high = query.b.low
  /\ StrLess(query.b.low, query.b.high)
  /\ out[1]


\* the nodes of the subtree of x
RECURSIVE Subtree(_)
Subtree(x) ==
  IF x = NIL THEN {}
  ELSE { x } \cup Subtree(tree.n[x].left) \cup Subtree(tree.n[x].right)

\* the number of black nodes on every path from x down to the sentinel, or
\* -1 when two paths differ
RECURSIVE BlackHeight(_)
BlackHeight(x) ==
  IF x = NIL THEN 0
  ELSE IF BlackHeight(tree.n[x].left) = 0 - 1 THEN 0 - 1
  ELSE IF BlackHeight(tree.n[x].left) # BlackHeight(tree.n[x].right)
    THEN 0 - 1
  ELSE BlackHeight(tree.n[x].left) + (IF tree.n[x].is_red THEN 0 ELSE 1)

\* C36: after every insertInterval and deleteInterval the root and the
\* sentinel are black, no red node has a red child, every path from the
\* root to the sentinel has the same number of black nodes, and the low of
\* a node is not below a low of its left subtree and not above a low of its
\* right subtree.
C36_RedBlack ==
  /\ ~tree.n[tree.root].is_red
  /\ ~tree.n[NIL].is_red
  /\ \A x \in Subtree(tree.root) :
       /\ tree.n[x].is_red =>
            \A c \in Children(x) : ~tree.n[c].is_red
       /\ \A y \in Subtree(tree.n[x].left) :
            StrLeq(tree.n[y].interval.low, tree.n[x].interval.low)
       /\ \A y \in Subtree(tree.n[x].right) :
            StrLeq(tree.n[x].interval.low, tree.n[y].interval.low)
  /\ BlackHeight(tree.root) # 0 - 1


\* a tree of five nodes without the first id: the root has two children,
\* a node is red, and two nodes hold the same low
C36_Witness ==
  /\ Cardinality(Subtree(tree.root)) = 5
  /\ << 97 >> \notin DOMAIN storage
  /\ Cardinality(Children(tree.root)) = 2
  /\ \E x \in Subtree(tree.root) : tree.n[x].is_red
  /\ \E x, y \in Subtree(tree.root) :
       x # y /\ tree.n[x].interval.low = tree.n[y].interval.low


\* the ids the map from prefixes to suffixes describes
DescribedIds ==
  UNION { { PrefixedId(p, suffix) : suffix \in ids[p] } : p \in DOMAIN ids }

\* the ids of the nodes that are reached from the root
ReachedIds == { tree.n[x].interval.id : x \in Subtree(tree.root) }

\* C37: the keys of storage, the ids of the nodes reached from the root and
\* the ids the map from prefixes to suffixes describes are the same set,
\* and getInterval gives the stored interval of an id that is present and
\* the empty interval for an id that is absent, without failing.
C37_IndexConsistency ==
  ~ub =>
    /\ DOMAIN storage = ReachedIds
    /\ DOMAIN storage = DescribedIds
    /\ \A v \in IdIntervals :
         /\ ~getInterval(Object, v[1]).threw
         /\ getInterval(Object, v[1]).ret_interval =
              IF v[1] \in DOMAIN storage
                THEN tree.n[storage[v[1]]].interval
                ELSE [id |-> <<>>, low |-> <<>>, high |-> <<>>,
                      timestamp |-> 0]


\* the iterators that exist and have their own flag set
InUse == { i \in Iterators : its[i].alive /\ its[i].iterator_in_use }

\* C38: the flag iterator_in_use of the tree is set exactly when the
\* pointer iterator of the tree refers to an existing iterator whose own
\* flag is set, no other iterator has its flag set, and when no iterator
\* exists the tree is free for the next one.
C38_Registration ==
  ~ub =>
    /\ iterator_in_use <=> (iterator # NULLPTR /\ iterator \in InUse)
    /\ InUse \subseteq { iterator }
    /\ (\A i \in Iterators : ~its[i].alive) => ~iterator_in_use


\* iterator i is registered with the tree and walks it
Registered(i) ==
  /\ its[i].alive
  /\ its[i].iterator_in_use
  /\ iterator_in_use
  /\ iterator = i

\* C39: restart(min, max) on a live iterator of a tree that is not empty
\* leaves the iterator live and at the start of the walk over [min, max]:
\* it holds the root with the newest timestamp of the tree and has yielded
\* nothing, so that the walk begins again from the newest interval.
C39_RestartRepositions ==
  [][\A i \in Walkers : \A r \in WalkRanges[i] :
       (Registered(i) /\ tree.root # NIL /\ IterRestart(i, r[1], r[2])) =>
         /\ its'[i].iterator_in_use
         /\ iterator_in_use' /\ iterator' = i
         /\ its'[i].search_int.low = r[1]
         /\ its'[i].search_int.high = r[2]
         /\ its'[i].nodes =
              { [node |-> tree.root, p |-> tree.n[tree.root].max_timestamp] }
         /\ its'[i].yielded = <<>>]_vars


\* the intervals of callers that also insert under the empty id
NoEffectIntervals ==
  HoldIntervals \cup { << <<>>, << 49 >>, << 49 >>, 1 >> }

\* the tree under calls that store nothing and remove nothing, among
\* calls that do, while one iterator walks
NextNoEffect ==
  \/ \E w \in NoEffectIntervals :
       InsertInterval(w[1], w[2], w[3], w[4], FALSE)
  \/ \E id \in IntervalIds : DeleteInterval(id, FALSE)
  \/ \E id_prefix \in Prefixes : DeleteAllIntervals(id_prefix, FALSE)
  \/ \E threshold \in SyncThresholds : SetSyncThreshold(threshold)
  \/ \E i \in Walkers, garbage \in BOOLEAN :
       \E r \in WalkRanges[i] : IterConstruct(i, r[1], r[2], garbage)
  \/ \E i \in Walkers : IterDestruct(i)
  \/ \E i \in Walkers : IterNext(i)

SpecNoEffect == Init /\ [][NextNoEffect]_vars

\* the members of a TopKIterator
Members(it) ==
  [alive |-> it.alive, iterator_in_use |-> it.iterator_in_use,
   search_int |-> it.search_int, nodes |-> it.nodes,
   explored |-> it.explored]

\* the tree nodes, the two maps, the checkpoint counter and the iterators
\* with their registration are what they were
NoEffect ==
  /\ UNCHANGED << tree, storage, ids, sync_counter, iterator_in_use,
                  iterator >>
  /\ \A i \in Iterators : Members(its'[i]) = Members(its[i])

\* C40: a call that does not change the set of stored intervals has no
\* effect: insertInterval with the empty id, deleteInterval of an id that
\* is not stored and deleteAllIntervals of a prefix that is not present
\* leave the tree, storage, ids, the checkpoint counter and a live
\* iterator (its registration and its pending nodes) unchanged.
C40_NoEffect ==
  [][/\ \A w \in NoEffectIntervals :
          (w[1] = <<>> /\ InsertInterval(w[1], w[2], w[3], w[4], FALSE))
            => NoEffect
     /\ \A id \in IntervalIds :
          (id \notin DOMAIN storage /\ DeleteInterval(id, FALSE))
            => NoEffect
     /\ \A id_prefix \in Prefixes :
          (id_prefix \notin DOMAIN ids
             /\ DeleteAllIntervals(id_prefix, FALSE))
            => NoEffect]_vars

============================================================================
